---- MODULE Spec2Model ----
(***************************************************************************)
(* Model of the LeafBridge core: the resource resolvers of localfs and     *)
(* localregistry, the deployment engine state of lbengine and the typed    *)
(* event registry of lbevent.                                              *)
(***************************************************************************)
EXTENDS Integers, Sequences, FiniteSets, TLC

(***************************************************************************)
(* Bounds of the model.                                                    *)
(***************************************************************************)

\* Number of ordinary (non-root) resource IDs a resource graph may define.
NumDirs == 2

\* Number of threads of control that use one engine.
NumThreads == 2

\* Number of flow IDs, of lock IDs and of package IDs.
NumFlows == 2
NumLocks == 2
NumPackages == 2

\* Greatest number of registrations one Add call of the model is given
\* (the call with the compiled-in list apart).
MaxAdd == 2

\* Greatest length of the Lineage of a reference whose path is computed.
MaxLineage == 2

(***************************************************************************)
(* Resource identifiers.                                                   *)
(***************************************************************************)

DirNames == <<"dirA", "dirB", "dirC", "dirD", "dirE">>
KeyNames == <<"keyA", "keyB", "keyC", "keyD", "keyE">>
SegNames == <<"Acme", "Tool", "Data", "Logs", "Temp">>

\* A known folder of the compiled-in table that graphs of the model refer to.
ProgramFiles == "program-files"
\* The one registry root of the compiled-in table.
Software == "software"
\* An ID that no graph defines and that no root table contains.
Nowhere == "nowhere"

PlainDirIDs == {DirNames[i] : i \in 1..NumDirs}
PlainKeyIDs == {KeyNames[i] : i \in 1..NumDirs}

\* IDs that a directory graph may define: the ordinary ones, and the ID of a
\* known folder (a deployment file is free to reuse it).
DefinableDirIDs == PlainDirIDs \cup {ProgramFiles}

\* Values a Location field may take ("" is the missing location).
DirLocations == PlainDirIDs \cup {ProgramFiles, Nowhere, ""}

\* IDs a caller may ask the resolver for.
DirRequestIDs == PlainDirIDs \cup {ProgramFiles, Nowhere}

IndexOf(names, s) == CHOOSE i \in 1..Len(names) : names[i] = s

\* The Path segment of the definition of a directory ID.
SegmentOf(id) == IF id = ProgramFiles THEN "Shadow" ELSE SegNames[IndexOf(DirNames, id)]

\* knownFolders: the IDs of the table of known folders.
knownFolders ==
  {"common-start-menu", "public-desktop", "program-data", "program-files",
   "program-files-x86", "program-files-x64", "system"}

\* registryRoots: the IDs of the table of registry roots.
registryRoots == {"software"}

\* DirectoryResourceMap values of the model: every partial map from the
\* definable IDs to a DirectoryResource {Location, Path}.
DirGraphs ==
  UNION {{[d \in D |-> [Location |-> f[d], Path |-> SegmentOf(d)]] : f \in [D -> DirLocations]}
           : D \in SUBSET DefinableDirIDs}

\* The registry ID that corresponds to a directory ID.
KeyOf(d) ==
  IF d = ProgramFiles THEN Software
  ELSE IF d \in {Nowhere, ""} THEN d
  ELSE KeyNames[IndexOf(DirNames, d)]

\* The directory ID that corresponds to a registry ID.
DirOf(k) ==
  IF k = Software THEN ProgramFiles
  ELSE IF k \in {Nowhere, ""} THEN k
  ELSE DirNames[IndexOf(KeyNames, k)]

\* RegistryKeyResourceMap that mirrors a directory graph: keys for
\* directories, the registry root for the known folder.
KeyGraphOf(g) ==
  [k \in {KeyOf(d) : d \in DOMAIN g} |->
     [Location |-> KeyOf(g[DirOf(k)].Location), Name |-> "", Path |-> g[DirOf(k)].Path]]

KeyRequestIDs == {KeyOf(d) : d \in DirRequestIDs}

FileNames == <<"fileA", "fileB", "fileC", "fileD", "fileE">>
ValueNames == <<"valueA", "valueB", "valueC", "valueD", "valueE">>

\* The file resource that the graphs of the model place in a Location: one
\* file in every directory ID, one in the known folder, one in an undefined
\* Location and one without Location.
FileOf(d) ==
  IF d = ProgramFiles THEN "fileRoot"
  ELSE IF d = Nowhere THEN "fileLost"
  ELSE IF d = "" THEN "fileNone"
  ELSE FileNames[IndexOf(DirNames, d)]

\* The registry value that corresponds to the file of a Location.
ValueOf(d) ==
  IF d = ProgramFiles THEN "valueRoot"
  ELSE IF d = Nowhere THEN "valueLost"
  ELSE IF d = "" THEN "valueNone"
  ELSE ValueNames[IndexOf(DirNames, d)]

\* FileResourceMap of the model: a FileResource {Location, Path} per Location.
FileGraph ==
  [f \in {FileOf(d) : d \in DirLocations} |->
     [Location |-> CHOOSE d \in DirLocations : FileOf(d) = f, Path |-> "app.exe"]]

\* RegistryValueResourceMap of the model: a value {Key, Name, Type} per key.
ValueGraph ==
  [v \in {ValueOf(d) : d \in DirLocations} |->
     [Key |-> KeyOf(CHOOSE d \in DirLocations : ValueOf(d) = v),
      Name |-> "Version", Type |-> "string"]]

\* An ID that no file map and no value map defines.
Missing == "missing"

FileRequestIDs == DOMAIN FileGraph \cup {Missing}
ValueRequestIDs == DOMAIN ValueGraph \cup {Missing}

Callers == {"c1", "c2"}

VARIABLES
  Directories,   \* resolver.fs.Directories of the localfs resolver
  Keys,          \* resolver.reg.Keys of the localregistry resolver
  Files,         \* resolver.fs.Files of the localfs resolver
  Values,        \* resolver.reg.Values of the localregistry resolver
  osFail,        \* root IDs whose lookup in the operating system fails
  calls,         \* per caller: the ResolveDirectory / ResolveKey call in progress
  leaves,        \* per caller: the ResolveFile / ResolveValue call in progress
  activeFlows,           \* engineState.activeFlows
  verifiedPackageFiles,  \* engineState.verifiedPackageFiles
  extractedPackages,     \* engineState.extractedPackages
  locks,                 \* engineState.locks: lock ID -> the mutex is locked
  threads,       \* per thread: the engine operation it called and its outcome
  admitted,      \* history: successful Admit calls per flow since its last Release
  released,      \* history: the flow was released and not asked for since
  holds,         \* history: the lock IDs every thread has acquired and not released
  cachedEver,    \* history: the <<kind, package>> pairs ever cached
  types,         \* Registry.types
  ids,           \* Registry.ids
  unmarshalers,  \* Registry.unmarshalers
  nextID,        \* Registry.next
  start,         \* the starting ID that NewRegistry was given
  last,          \* the last call on the registry, with what it returned
  pathIn,        \* the FileRef whose paths are asked for
  pathOut,       \* the last Path() call on it, with what it returned
  mutex,         \* Registry.mutex: the writer's claim on it, the readers holding it
  writer,        \* the goroutine in Add: its position and its locals
  readers,       \* per reading goroutine: its position and what it read
  window,        \* history: the registry before and after the Add in progress
  clock,         \* the reading that time.Now() gives
  record,        \* a RecordOf[T] variable of the caller
  recordOut,     \* the last call on the record, with what it returned
  keyIn,         \* the RegistryKeyRef whose path is asked for
  keyOut,        \* the last Path() call on it, with what it returned
  opening,       \* the OpenDir call in progress: its position and its locals
  handles        \* the directory handles that are open

graphVars == <<Directories, Keys, Files, Values, osFail>>
resolverVars == <<graphVars, calls, leaves>>
registryVars == <<types, ids, unmarshalers, nextID, start, last>>
pathVars == <<pathIn, pathOut>>
rwVars == <<mutex, writer, readers, window>>
recordVars == <<clock, record, recordOut>>
keyVars == <<keyIn, keyOut>>
dirVars == <<opening, handles>>
restVars == <<rwVars, recordVars, keyVars, dirVars>>
engineVars == <<activeFlows, verifiedPackageFiles, extractedPackages, locks,
                threads, admitted, released, holds, cachedEver>>

(***************************************************************************)
(* Errors and references of the resolvers.                                 *)
(***************************************************************************)

NoError == [kind |-> "nil", id |-> "", at |-> ""]
\* fs.ErrNotExist, returned bare by the root lookups.
ErrNotExist == [kind |-> "NotExist", id |-> "", at |-> ""]

ResolveError(kind, id, at) == [kind |-> kind, id |-> id, at |-> at]

\* The zero KnownFolder / RegistryRoot.
ZeroRoot == [ID |-> "", Path |-> ""]

\* The zero DirRef / RegistryKeyRef.
ZeroRef == [Root |-> ZeroRoot, Lineage |-> <<>>]

IdleCall ==
  [pc |-> "idle", kind |-> "", id |-> "", lineage |-> <<>>, seen |-> {},
   next |-> "", steps |-> 0, ref |-> ZeroRef, err |-> NoError]

\* The zero FileRef / RegistryValueRef (a FileRef has FileID and FilePath, a
\* RegistryValueRef has ID, Name and Type).
ZeroLeafRef == [Root |-> ZeroRoot, Lineage |-> <<>>, ID |-> "", Path |-> "", Name |-> "", Type |-> ""]

\* The error of ResolveFile / ResolveValue: its kind, the leaf ID it names
\* and the error of the parent resolution it wraps (NoError when none).
LeafError(kind, id, cause) == [kind |-> kind, id |-> id, cause |-> cause]

NoLeafError == LeafError("nil", "", NoError)

IdleLeaf == [pc |-> "idle", kind |-> "", id |-> "", ref |-> ZeroLeafRef, err |-> NoLeafError]

\* A mutation of Reverse: the slice is left in the order it was built.
ReverseOmitted(s) == s

\* slices.Reverse
Reverse(s) == [i \in 1..Len(s) |-> s[Len(s) + 1 - i]]

\* A mutation of ResolveKnownFolder: a failure of the operating system is
\* reported as an unknown folder.
ResolveKnownFolderSwallows(id) ==
  IF id \notin knownFolders \/ id \in osFail
    THEN [root |-> ZeroRoot, err |-> ErrNotExist]
    ELSE [root |-> [ID |-> id, Path |-> "C:\\Program Files"], err |-> NoError]

\* Resolver.ResolveKnownFolder: the known folder of an ID, fs.ErrNotExist for
\* an ID the table does not hold, and a wrapped error when the operating
\* system cannot tell the folder's path.
ResolveKnownFolder(id) ==
  IF id \notin knownFolders
    THEN [root |-> ZeroRoot, err |-> ErrNotExist]
  ELSE IF id \in osFail
    THEN [root |-> ZeroRoot, err |-> ResolveError("Collaborator", id, id)]
  ELSE [root |-> [ID |-> id, Path |-> "C:\\Program Files"], err |-> NoError]

\* A mutation of ResolveRoot: the handle of the predefined key is not asked
\* for.
ResolveRootUnverified(id) ==
  IF id \notin registryRoots
    THEN [root |-> ZeroRoot, err |-> ErrNotExist]
    ELSE [root |-> [ID |-> id, Path |-> "SOFTWARE"], err |-> NoError]

\* Resolver.ResolveRoot: the registry root of an ID, fs.ErrNotExist for an ID
\* the table does not hold, and a wrapped error when the predefined key has
\* no handle.
ResolveRoot(id) ==
  IF id \notin registryRoots
    THEN [root |-> ZeroRoot, err |-> ErrNotExist]
  ELSE IF DirOf(id) \in osFail
    THEN [root |-> ZeroRoot, err |-> ResolveError("Collaborator", id, id)]
  ELSE [root |-> [ID |-> id, Path |-> "SOFTWARE"], err |-> NoError]

(***************************************************************************)
(* The resolvers.  A call is the code up to the ancestor walk, then one    *)
(* step per iteration of the walk; the last iteration carries the code     *)
(* that follows the loop.  steps counts the iterations of the walk.        *)
(***************************************************************************)

\* A mutation of CycleError: the error names the repeated ID only.
CycleErrorBare(id, next) == ResolveError("Cycle", next, next)

\* The error of line 92: failed to resolve id, next has a cyclic reference.
CycleError(id, next) == ResolveError("Cycle", id, next)

\* The errors of lines 65 and 115: id, or the parent next, is not defined.
NotDefinedError(id, next) == ResolveError("NotDefined", id, next)

\* A mutation of NoLocationError: the error names the requested ID only.
NoLocationErrorBare(id, next) == ResolveError("NoLocation", id, id)

\* The errors of lines 70 and 100: id, or the parent next, has no location.
NoLocationError(id, next) == ResolveError("NoLocation", id, next)

\* A mutation of SeenOf: one visited set for all the calls of a resolver.
SeenShared(c) == UNION {calls[d].seen : d \in Callers}

\* The visited set of a call: made by the call on line 82.
SeenOf(c) == calls[c].seen

\* A mutation of CycleCheck: the visited set is never consulted.
CycleCheckNever(seen, id) == FALSE

\* The cycle check that opens every iteration of the walk: seen.Contains(next).
CycleCheck(seen, id) == id \in seen

\* A mutation of ReturnFromWalk: a failing walk returns the lineage it has
\* gathered.
ReturnFromWalkPartial(c, ref, err) ==
  calls' = [calls EXCEPT ![c].pc = "done", ![c].lineage = <<>>, ![c].seen = {},
                         ![c].next = "",
                         ![c].ref = IF err = NoError THEN ref
                                    ELSE [Root |-> ZeroRoot, Lineage |-> calls[c].lineage],
                         ![c].err = err,
                         ![c].steps = @ + 1]

\* A return statement inside or after the walk: the reference and the error
\* of caller c, the returning iteration counted.
ReturnFromWalk(c, ref, err) ==
  calls' = [calls EXCEPT ![c].pc = "done", ![c].lineage = <<>>, ![c].seen = {},
                         ![c].next = "", ![c].ref = ref, ![c].err = err,
                         ![c].steps = @ + 1]

\* Resolver.ResolveDirectory, up to the ancestor walk.
ResolveDirectoryCall(c, id) ==
  /\ calls[c].pc = "idle"
  /\ IF id \notin DOMAIN Directories
       THEN LET candidate == ResolveKnownFolder(id) IN
            IF candidate.err = NoError
              THEN calls' = [calls EXCEPT ![c] =
                     [IdleCall EXCEPT !.pc = "done", !.kind = "dir", !.id = id,
                                      !.ref = [Root |-> candidate.root, Lineage |-> <<>>]]]
            ELSE IF candidate.err # ErrNotExist
              THEN calls' = [calls EXCEPT ![c] =
                     [IdleCall EXCEPT !.pc = "done", !.kind = "dir", !.id = id,
                                      !.err = candidate.err]]
            ELSE calls' = [calls EXCEPT ![c] =
                     [IdleCall EXCEPT !.pc = "done", !.kind = "dir", !.id = id,
                                      !.err = NotDefinedError(id, id)]]
     ELSE IF Directories[id].Location = ""
       THEN calls' = [calls EXCEPT ![c] =
                     [IdleCall EXCEPT !.pc = "done", !.kind = "dir", !.id = id,
                                      !.err = NoLocationError(id, id)]]
     ELSE calls' = [calls EXCEPT ![c] =
                     [IdleCall EXCEPT !.pc = "walk", !.kind = "dir", !.id = id,
                                      !.lineage = <<Directories[id]>>,
                                      !.next = Directories[id].Location]]
  /\ UNCHANGED graphVars

\* Resolver.ResolveDirectory: one iteration of the ancestor walk.
ResolveDirectoryWalk(c) ==
  /\ calls[c].pc = "walk"
  /\ calls[c].kind = "dir"
  /\ LET id == calls[c].id
         next == calls[c].next
         lineage == calls[c].lineage
     IN
     IF CycleCheck(SeenOf(c), next)
       THEN ReturnFromWalk(c, ZeroRef, CycleError(id, next))
     ELSE IF next \in DOMAIN Directories
       THEN LET parent == Directories[next] IN
            IF parent.Location = ""
              THEN ReturnFromWalk(c, ZeroRef, NoLocationError(id, next))
            ELSE calls' = [calls EXCEPT ![c].lineage = Append(lineage, parent),
                                        ![c].seen = @ \cup {next},
                                        ![c].next = parent.Location,
                                        ![c].steps = @ + 1]
     ELSE LET candidate == ResolveKnownFolder(next) IN
          IF candidate.err = NoError
            THEN ReturnFromWalk(c, [Root |-> candidate.root, Lineage |-> Reverse(lineage)], NoError)
          ELSE IF candidate.err # ErrNotExist
            THEN ReturnFromWalk(c, ZeroRef, candidate.err)
          ELSE ReturnFromWalk(c, ZeroRef, NotDefinedError(id, next))
  /\ UNCHANGED <<graphVars, leaves>>

\* Resolver.ResolveKey, up to the ancestor walk.
ResolveKeyCall(c, key) ==
  /\ calls[c].pc = "idle"
  /\ IF key \notin DOMAIN Keys
       THEN LET candidate == ResolveRoot(key) IN
            IF candidate.err = NoError
              THEN calls' = [calls EXCEPT ![c] =
                     [IdleCall EXCEPT !.pc = "done", !.kind = "key", !.id = key,
                                      !.ref = [Root |-> candidate.root, Lineage |-> <<>>]]]
            ELSE IF candidate.err # ErrNotExist
              THEN calls' = [calls EXCEPT ![c] =
                     [IdleCall EXCEPT !.pc = "done", !.kind = "key", !.id = key,
                                      !.err = candidate.err]]
            ELSE calls' = [calls EXCEPT ![c] =
                     [IdleCall EXCEPT !.pc = "done", !.kind = "key", !.id = key,
                                      !.err = NotDefinedError(key, key)]]
     ELSE IF Keys[key].Location = ""
       THEN calls' = [calls EXCEPT ![c] =
                     [IdleCall EXCEPT !.pc = "done", !.kind = "key", !.id = key,
                                      !.err = NoLocationError(key, key)]]
     ELSE calls' = [calls EXCEPT ![c] =
                     [IdleCall EXCEPT !.pc = "walk", !.kind = "key", !.id = key,
                                      !.lineage = <<Keys[key]>>,
                                      !.next = Keys[key].Location]]
  /\ UNCHANGED graphVars

\* Resolver.ResolveKey: one iteration of the ancestor walk.
ResolveKeyWalk(c) ==
  /\ calls[c].pc = "walk"
  /\ calls[c].kind = "key"
  /\ LET key == calls[c].id
         next == calls[c].next
         lineage == calls[c].lineage
     IN
     IF CycleCheck(SeenOf(c), next)
       THEN ReturnFromWalk(c, ZeroRef, CycleError(key, next))
     ELSE IF next \in DOMAIN Keys
       THEN LET parent == Keys[next] IN
            IF parent.Location = ""
              THEN ReturnFromWalk(c, ZeroRef, NoLocationError(key, next))
            ELSE calls' = [calls EXCEPT ![c].lineage = Append(lineage, parent),
                                        ![c].seen = @ \cup {next},
                                        ![c].next = parent.Location,
                                        ![c].steps = @ + 1]
     ELSE LET candidate == ResolveRoot(next) IN
          IF candidate.err = NoError
            THEN ReturnFromWalk(c, [Root |-> candidate.root, Lineage |-> Reverse(lineage)], NoError)
          ELSE IF candidate.err # ErrNotExist
            THEN ReturnFromWalk(c, ZeroRef, candidate.err)
          ELSE ReturnFromWalk(c, ZeroRef, NotDefinedError(key, next))
  /\ UNCHANGED <<graphVars, leaves>>

\* A mutation of AttachLeaf: the leaf is appended to the Lineage.
AttachLeafToLineage(parent, id, path, name, type) ==
  [Root |-> parent.Root,
   Lineage |-> Append(parent.Lineage, [Location |-> "", Path |-> path]),
   ID |-> id, Path |-> path, Name |-> name, Type |-> type]

\* The reference that ResolveFile / ResolveValue return: the Root and the
\* Lineage of the parent, and the leaf's own ID with its Path or its Name
\* and Type.
AttachLeaf(parent, id, path, name, type) ==
  [Root |-> parent.Root, Lineage |-> parent.Lineage,
   ID |-> id, Path |-> path, Name |-> name, Type |-> type]

\* A caller calls ResolveDirectory(id).
ResolveDirectory(c, id) ==
  /\ leaves[c].pc = "idle"
  /\ ResolveDirectoryCall(c, id)
  /\ UNCHANGED leaves

\* A caller calls ResolveKey(key).
ResolveKey(c, key) ==
  /\ leaves[c].pc = "idle"
  /\ ResolveKeyCall(c, key)
  /\ UNCHANGED leaves

\* Resolver.ResolveFile up to the return of ResolveDirectory(data.Location).
ResolveFile(c, id) ==
  /\ leaves[c].pc = "idle"
  /\ calls[c].pc = "idle"
  /\ IF id \notin DOMAIN Files
       THEN /\ leaves' = [leaves EXCEPT ![c] =
                 [IdleLeaf EXCEPT !.pc = "done", !.kind = "file", !.id = id,
                                  !.err = LeafError("NotDefined", id, NoError)]]
            /\ UNCHANGED <<graphVars, calls>>
     ELSE IF Files[id].Location = ""
       THEN /\ leaves' = [leaves EXCEPT ![c] =
                 [IdleLeaf EXCEPT !.pc = "done", !.kind = "file", !.id = id,
                                  !.err = LeafError("NoLocation", id, NoError)]]
            /\ UNCHANGED <<graphVars, calls>>
     ELSE /\ leaves' = [leaves EXCEPT ![c] =
                 [IdleLeaf EXCEPT !.pc = "parent", !.kind = "file", !.id = id]]
          /\ ResolveDirectoryCall(c, Files[id].Location)

\* Resolver.ResolveFile from the return of ResolveDirectory on: the error
\* wrapped, or the directory's Root and Lineage with the file's ID and Path.
ResolveFileReturn(c) ==
  /\ leaves[c].pc = "parent"
  /\ leaves[c].kind = "file"
  /\ calls[c].pc = "done"
  /\ LET id == leaves[c].id
         dir == calls[c].ref
         err == calls[c].err
     IN
     leaves' = [leaves EXCEPT ![c] =
       IF err # NoError
         THEN [IdleLeaf EXCEPT !.pc = "done", !.kind = "file", !.id = id,
                               !.err = LeafError("Parent", id, err)]
         ELSE [IdleLeaf EXCEPT !.pc = "done", !.kind = "file", !.id = id,
                               !.ref = AttachLeaf(dir, id, Files[id].Path, "", "")]]
  /\ calls' = [calls EXCEPT ![c] = IdleCall]
  /\ UNCHANGED graphVars

\* Resolver.ResolveValue up to the return of ResolveKey(data.Key).
ResolveValue(c, value) ==
  /\ leaves[c].pc = "idle"
  /\ calls[c].pc = "idle"
  /\ IF value \notin DOMAIN Values
       THEN /\ leaves' = [leaves EXCEPT ![c] =
                 [IdleLeaf EXCEPT !.pc = "done", !.kind = "value", !.id = value,
                                  !.err = LeafError("NotDefined", value, NoError)]]
            /\ UNCHANGED <<graphVars, calls>>
     ELSE IF Values[value].Key = ""
       THEN /\ leaves' = [leaves EXCEPT ![c] =
                 [IdleLeaf EXCEPT !.pc = "done", !.kind = "value", !.id = value,
                                  !.err = LeafError("NoLocation", value, NoError)]]
            /\ UNCHANGED <<graphVars, calls>>
     ELSE /\ leaves' = [leaves EXCEPT ![c] =
                 [IdleLeaf EXCEPT !.pc = "parent", !.kind = "value", !.id = value]]
          /\ ResolveKeyCall(c, Values[value].Key)

\* Resolver.ResolveValue from the return of ResolveKey on: the error
\* wrapped, or the key's Root and Lineage with the value's ID, Name and Type.
ResolveValueReturn(c) ==
  /\ leaves[c].pc = "parent"
  /\ leaves[c].kind = "value"
  /\ calls[c].pc = "done"
  /\ LET value == leaves[c].id
         key == calls[c].ref
         err == calls[c].err
     IN
     leaves' = [leaves EXCEPT ![c] =
       IF err # NoError
         THEN [IdleLeaf EXCEPT !.pc = "done", !.kind = "value", !.id = value,
                               !.err = LeafError("Parent", value, err)]
         ELSE [IdleLeaf EXCEPT !.pc = "done", !.kind = "value", !.id = value,
                               !.ref = AttachLeaf(key, value, "", Values[value].Name,
                                                  Values[value].Type)]]
  /\ calls' = [calls EXCEPT ![c] = IdleCall]
  /\ UNCHANGED graphVars

\* The caller has taken the result of its call and may call again.
TakeResult(c) ==
  /\ IF leaves[c].pc = "idle" THEN calls[c].pc = "done" ELSE leaves[c].pc = "done"
  /\ calls' = [calls EXCEPT ![c] = IdleCall]
  /\ leaves' = [leaves EXCEPT ![c] = IdleLeaf]
  /\ UNCHANGED graphVars

\* NewResolver for a resource graph, before any call.
ResolverInit ==
  /\ Directories \in DirGraphs
  /\ Keys = KeyGraphOf(Directories)
  /\ Files = FileGraph
  /\ Values = ValueGraph
  /\ osFail \in SUBSET {ProgramFiles}
  /\ calls = [c \in Callers |-> IdleCall]
  /\ leaves = [c \in Callers |-> IdleLeaf]

(***************************************************************************)
(* The engine state: flow admission, named locks and the package caches.   *)
(* A thread calls an operation, and the operation then runs as one step    *)
(* under the engine's mutual exclusion.                                    *)
(***************************************************************************)

FlowNames == <<"flowA", "flowB", "flowC", "flowD">>
LockNames == <<"lockA", "lockB", "lockC", "lockD">>
PackageNames == <<"pkgA", "pkgB", "pkgC", "pkgD">>

Threads == 1..NumThreads
Flows == {FlowNames[i] : i \in 1..NumFlows}
Locks == {LockNames[i] : i \in 1..NumLocks}
Packages == {PackageNames[i] : i \in 1..NumPackages}
PackageKinds == {"verified", "extracted"}
PackageLocations == {"dir1", "dir2"}
LockModes == {"block", "try"}

ReadyThread == [pc |-> "ready", op |-> "", args |-> <<>>, out |-> ""]

\* newEngineState: empty flow set, empty caches, a lock manager without locks.
newEngineState ==
  /\ activeFlows = {}
  /\ verifiedPackageFiles = <<>>
  /\ extractedPackages = <<>>
  /\ locks = <<>>

EngineInit ==
  /\ newEngineState
  /\ threads = [t \in Threads |-> ReadyThread]
  /\ admitted = [f \in Flows |-> 0]
  /\ released = [f \in Flows |-> FALSE]
  /\ holds = [t \in Threads |-> {}]
  /\ cachedEver = {}

\* Thread t calls an operation of the engine.
Call(t, op, args) ==
  /\ threads[t].pc = "ready"
  /\ threads' = [threads EXCEPT ![t] = [pc |-> "called", op |-> op, args |-> args, out |-> ""]]

\* The operation of thread t returns.
Returns(t, out) == threads' = [threads EXCEPT ![t] = [ReadyThread EXCEPT !.out = out]]

Running(t, op) == threads[t].pc = "called" /\ threads[t].op = op

flowVars == <<activeFlows, admitted, released>>
lockVars == <<locks, holds>>
cacheVars == <<verifiedPackageFiles, extractedPackages, cachedEver>>

CallAdmit(t, flowID) == Call(t, "Admit", <<flowID>>) /\ UNCHANGED <<flowVars, lockVars, cacheVars>>

CallRelease(t, flowID) == Call(t, "Release", <<flowID>>) /\ UNCHANGED <<flowVars, lockVars, cacheVars>>

\* A mutation of Admit: the flow is inserted without the membership test.
AdmitWithoutTest(t) ==
  /\ Running(t, "Admit")
  /\ LET flowID == threads[t].args[1] IN
       /\ activeFlows' = activeFlows \cup {flowID}
       /\ admitted' = [admitted EXCEPT ![flowID] = @ + 1]
       /\ released' = [released EXCEPT ![flowID] = FALSE]
       /\ Returns(t, "ok")
  /\ UNCHANGED <<lockVars, cacheVars>>

\* Admit(flowID): test and insert into activeFlows in one step; fails
\* AlreadyRunning when the flow is present.
Admit(t) ==
  /\ Running(t, "Admit")
  /\ LET flowID == threads[t].args[1] IN
       IF flowID \in activeFlows
         THEN /\ Returns(t, "AlreadyRunning")
              /\ released' = [released EXCEPT ![flowID] = FALSE]
              /\ UNCHANGED <<activeFlows, admitted>>
         ELSE /\ activeFlows' = activeFlows \cup {flowID}
              /\ admitted' = [admitted EXCEPT ![flowID] = @ + 1]
              /\ released' = [released EXCEPT ![flowID] = FALSE]
              /\ Returns(t, "ok")
  /\ UNCHANGED <<lockVars, cacheVars>>

\* A mutation of Release: the call returns and the flow stays in the set.
ReleaseKeeps(t) ==
  /\ Running(t, "Release")
  /\ LET flowID == threads[t].args[1] IN
       /\ admitted' = [admitted EXCEPT ![flowID] = 0]
       /\ released' = [released EXCEPT ![flowID] = TRUE]
       /\ Returns(t, "ok")
  /\ UNCHANGED <<activeFlows, lockVars, cacheVars>>

\* Release(flowID): removal from activeFlows, of a present or an absent flow.
Release(t) ==
  /\ Running(t, "Release")
  /\ LET flowID == threads[t].args[1] IN
       /\ activeFlows' = activeFlows \ {flowID}
       /\ admitted' = [admitted EXCEPT ![flowID] = 0]
       /\ released' = [released EXCEPT ![flowID] = TRUE]
       /\ Returns(t, "ok")
  /\ UNCHANGED <<lockVars, cacheVars>>

\* The mutex of a lock ID is locked (a lock never asked for has no mutex).
Locked(lockID) == lockID \in DOMAIN locks /\ locks[lockID]

\* The lock table with the mutex of lockID created if it was missing.
WithLock(lockID) == IF lockID \in DOMAIN locks THEN locks ELSE locks @@ (lockID :> FALSE)

CallAcquireLock(t, lockID, mode) ==
  /\ lockID \notin holds[t]
  /\ Call(t, "AcquireLock", <<lockID, mode>>)
  /\ UNCHANGED <<flowVars, lockVars, cacheVars>>

CallReleaseLock(t, lockID) ==
  /\ lockID \in holds[t]
  /\ Call(t, "ReleaseLock", <<lockID>>)
  /\ UNCHANGED <<flowVars, lockVars, cacheVars>>

\* A mutation of AcquireLock: the immediate-fail mode takes a held lock.
AcquireLockHeld(t) ==
  /\ Running(t, "AcquireLock")
  /\ LET lockID == threads[t].args[1]
         mode == threads[t].args[2]
     IN
       /\ mode = "block" => ~Locked(lockID)
       /\ locks' = [WithLock(lockID) EXCEPT ![lockID] = TRUE]
       /\ holds' = [holds EXCEPT ![t] = @ \cup {lockID}]
       /\ Returns(t, "ok")
  /\ UNCHANGED <<flowVars, cacheVars>>

\* AcquireLock(lockID): one mutex per lock ID, created on first use; the
\* blocking mode waits until the mutex is free, the immediate-fail mode
\* returns LockNotAcquired when it is not.
AcquireLock(t) ==
  /\ Running(t, "AcquireLock")
  /\ LET lockID == threads[t].args[1]
         mode == threads[t].args[2]
     IN
       IF Locked(lockID)
         THEN /\ mode = "try"
              /\ Returns(t, "LockNotAcquired")
              /\ UNCHANGED lockVars
         ELSE /\ locks' = [WithLock(lockID) EXCEPT ![lockID] = TRUE]
              /\ holds' = [holds EXCEPT ![t] = @ \cup {lockID}]
              /\ Returns(t, "ok")
  /\ UNCHANGED <<flowVars, cacheVars>>

\* ReleaseLock(lockID) by the holder of the lock.
ReleaseLock(t) ==
  /\ Running(t, "ReleaseLock")
  /\ LET lockID == threads[t].args[1] IN
       /\ locks' = [locks EXCEPT ![lockID] = FALSE]
       /\ holds' = [holds EXCEPT ![t] = @ \ {lockID}]
       /\ Returns(t, "ok")
  /\ UNCHANGED <<flowVars, cacheVars>>

\* The cache of a kind.
CacheOf(kind) == IF kind = "verified" THEN verifiedPackageFiles ELSE extractedPackages

\* What LookupPackage(kind, packageID) finds in the caches.
Entry(kind, packageID) ==
  IF packageID \in DOMAIN CacheOf(kind) THEN CacheOf(kind)[packageID] ELSE "miss"

\* A map with one entry set.
Put(m, k, v) == [x \in DOMAIN m \cup {k} |-> IF x = k THEN v ELSE m[x]]

CallCachePackage(t, kind, packageID, location) ==
  /\ Call(t, "CachePackage", <<kind, packageID, location>>)
  /\ UNCHANGED <<flowVars, lockVars, cacheVars>>

CallLookupPackage(t, kind, packageID) ==
  /\ Call(t, "LookupPackage", <<kind, packageID>>)
  /\ UNCHANGED <<flowVars, lockVars, cacheVars>>

\* A mutation of CachePackage: the location goes to the caches of both kinds.
CachePackageBothKinds(t) ==
  /\ Running(t, "CachePackage")
  /\ LET kind == threads[t].args[1]
         packageID == threads[t].args[2]
         location == threads[t].args[3]
     IN
       /\ verifiedPackageFiles' = Put(verifiedPackageFiles, packageID, location)
       /\ extractedPackages' = Put(extractedPackages, packageID, location)
       /\ cachedEver' = cachedEver \cup {<<kind, packageID>>}
       /\ Returns(t, "ok")
  /\ UNCHANGED <<flowVars, lockVars>>

\* CachePackage(kind, packageID, location): memoize the location of a
\* package in the cache of its kind.
CachePackage(t) ==
  /\ Running(t, "CachePackage")
  /\ LET kind == threads[t].args[1]
         packageID == threads[t].args[2]
         location == threads[t].args[3]
     IN
       /\ IF kind = "verified"
            THEN /\ verifiedPackageFiles' = Put(verifiedPackageFiles, packageID, location)
                 /\ UNCHANGED extractedPackages
            ELSE /\ extractedPackages' = Put(extractedPackages, packageID, location)
                 /\ UNCHANGED verifiedPackageFiles
       /\ cachedEver' = cachedEver \cup {<<kind, packageID>>}
       /\ Returns(t, "ok")
  /\ UNCHANGED <<flowVars, lockVars>>

\* LookupPackage(kind, packageID): the memoized location, or a miss.
LookupPackage(t) ==
  /\ Running(t, "LookupPackage")
  /\ Returns(t, Entry(threads[t].args[1], threads[t].args[2]))
  /\ UNCHANGED <<flowVars, lockVars, cacheVars>>

(***************************************************************************)
(* Event records and their JSON envelope.                                  *)
(***************************************************************************)

FlowStartedType == "deployment.flow:started"
FlowStoppedType == "deployment.flow:stopped"
\* The tag of an event type that the deployment system does not declare.
CustomType == "custom:event"

\* The event types of Registrations, in the order of the list.  The tags of
\* the action and download events are declared outside the files at hand and
\* are written after the pattern of the others.
RegisteredGoTypes ==
  <<"FlowStarted", "FlowStopped", "FlowCondition", "FlowLockNotAcquired",
    "FlowAlreadyRunning", "ActionStarted", "ActionStopped", "CommandSkipped",
    "CommandStarted", "CommandStopped", "DownloadStarted", "DownloadStopped",
    "DownloadReset", "ExtractionStarted", "ExtractionStopped", "FileExtraction",
    "FileVerification", "FileCopy", "FileDelete">>

RegisteredTags ==
  <<"deployment.flow:started", "deployment.flow:stopped", "deployment.flow:condition",
    "deployment.flow:lock-not-acquired", "deployment.flow:already-running",
    "deployment.action:started", "deployment.action:stopped",
    "deployment.command:skipped", "deployment.command:started",
    "deployment.command:stopped", "deployment.download:started",
    "deployment.download:stopped", "deployment.download:reset",
    "deployment.extraction:started", "deployment.extraction:stopped",
    "deployment.file:extraction", "deployment.file:verification",
    "deployment.file:copy", "deployment.file:delete">>

\* T.Type(): the tag of an event type.
TypeOf(goType) == RegisteredTags[IndexOf(RegisteredGoTypes, goType)]

\* The event types with a field Err of the interface type error.
HasErrField(goType) ==
  goType \in {"FlowStopped", "FlowCondition", "FlowLockNotAcquired", "CommandStopped",
              "ExtractionStopped", "FileExtraction", "FileCopy", "FileDelete"}

\* lbevent.UnmarshalRecord[T], in the revision rev of the build.
UnmarshalerOf(goType, rev) == [goType |-> goType, rev |-> rev]

\* Registrations: the compiled-in list.
Registrations ==
  [i \in 1..Len(RegisteredGoTypes) |->
     [Type |-> RegisteredTags[i], Unmarshaler |-> UnmarshalerOf(RegisteredGoTypes[i], 1)]]

\* The registrations the Add calls of the model draw from: two event types
\* of the list, a second decoder for one of them, and a tag of its own that
\* is given a decoder of another type.
ModelRegistrations ==
  {[Type |-> FlowStartedType, Unmarshaler |-> UnmarshalerOf("FlowStarted", 1)],
   [Type |-> FlowStoppedType, Unmarshaler |-> UnmarshalerOf("FlowStopped", 1)],
   [Type |-> FlowStoppedType, Unmarshaler |-> UnmarshalerOf("FlowStopped", 2)],
   [Type |-> CustomType, Unmarshaler |-> UnmarshalerOf("FlowStopped", 1)]}

ModelTags == {FlowStartedType, FlowStoppedType, CustomType}

\* Sequences of at most n elements of a set.
SeqUpTo(S, n) == UNION {[1..k -> S] : k \in 0..n}

\* A time.Time: the wall clock instant, and the monotonic clock reading that
\* time.Now attaches (0 when there is none).
Times == {[wall |-> 1, mono |-> 7], [wall |-> 2, mono |-> 0]}

\* Event payloads: a FlowStarted, and a FlowStopped with and without error.
Events ==
  {[goType |-> "FlowStarted", Flow |-> "flowA", Err |-> "none"],
   [goType |-> "FlowStopped", Flow |-> "flowA", Err |-> "nil"],
   [goType |-> "FlowStopped", Flow |-> "flowA", Err |-> "boom"]}

\* The zero value of an event type.
ZeroEvent(goType) ==
  [goType |-> goType, Flow |-> "", Err |-> IF HasErrField(goType) THEN "nil" ELSE "none"]

\* A mutation of NewRecord: the record is stamped with the time given.
NewRecordUsesAt(at, pc, event) == [time |-> at, pc |-> pc, Event |-> event]

\* NewRecord(at, pc, event): a record of the event and the program counter,
\* stamped with time.Now(); the time given is not used.
NewRecord(at, pc, event) == [time |-> clock, pc |-> pc, Event |-> event]

\* The records of the model: what NewRecord has built at some time.
Records == [time : Times, pc : {1}, Event : Events]

\* The zero RecordOf[T].
ZeroRecord(goType) == [time |-> [wall |-> 0, mono |-> 0], pc |-> 0, Event |-> ZeroEvent(goType)]

\* The nil Record.
NilRecord == [time |-> [wall |-> 0, mono |-> 0], pc |-> 0,
              Event |-> [goType |-> "nil", Flow |-> "", Err |-> "none"]]

\* encoding/json on a field of type error: null for nil, and an object
\* without members for an error value, which has no exported field.
EncodeErr(err) ==
  IF err = "none" THEN "absent"
  ELSE IF err = "nil" THEN "null"
  ELSE "{}"

\* RecordOf.MarshalJSON: the envelope {time, type, data}; the time in
\* RFC 3339 holds the wall clock instant only.
MarshalJSON(rec) ==
  [wf |-> TRUE,
   time |-> rec.time.wall,
   type |-> TypeOf(rec.Event.goType),
   data |-> [Flow |-> rec.Event.Flow, Err |-> EncodeErr(rec.Event.Err)]]

\* Bytes that are not JSON.
Malformed == [wf |-> FALSE, time |-> 0, type |-> "", data |-> [Flow |-> "", Err |-> "absent"]]

\* An envelope with the tag of another type put on it.
Retagged(b, tag) == [b EXCEPT !.type = tag]

\* The inputs of UnmarshalRecord: the encodings of the records, the same
\* under the tag of no event type of the list, and bytes that are not JSON.
Inputs ==
  {MarshalJSON(rec) : rec \in Records}
    \cup {Retagged(MarshalJSON(rec), CustomType) : rec \in Records}
    \cup {Malformed}

\* encoding/json decoding the data of an envelope into a T: the fields by
\* name; an object cannot be decoded into a field of the interface type
\* error.
DecodeFails(goType, b) == HasErrField(goType) /\ b.data.Err = "{}"

DecodeEvent(goType, b) ==
  [goType |-> goType, Flow |-> b.data.Flow,
   Err |-> IF HasErrField(goType) THEN "nil" ELSE "none"]

\* A mutation of UnmarshalJSON: the envelope is decoded into the target.
UnmarshalJSONInPlace(target, b) ==
  LET goType == target.Event.goType IN
  IF ~b.wf
    THEN [rec |-> target, err |-> "Decode", names |-> {TypeOf(goType)}]
  ELSE IF DecodeFails(goType, b)
    THEN [rec |-> [target EXCEPT !.time = [wall |-> b.time, mono |-> 0],
                                 !.Event = DecodeEvent(goType, b)],
          err |-> "Decode", names |-> {TypeOf(goType)}]
  ELSE IF b.type # TypeOf(goType)
    THEN [rec |-> [target EXCEPT !.time = [wall |-> b.time, mono |-> 0],
                                 !.Event = DecodeEvent(goType, b)],
          err |-> "TypeMismatch", names |-> {b.type, TypeOf(goType)}]
  ELSE [rec |-> [time |-> [wall |-> b.time, mono |-> 0], pc |-> 0,
                 Event |-> DecodeEvent(goType, b)],
        err |-> "nil", names |-> {}]

\* RecordOf[T].UnmarshalJSON(b) on a target: the envelope is decoded into a
\* variable of its own; when the JSON does not decode or carries the tag of
\* another type the target is left alone and an error is returned, and
\* otherwise the target becomes the record of the envelope.
\* names holds the tags that the message of the error names.
UnmarshalJSON(target, b) ==
  LET goType == target.Event.goType IN
  IF ~b.wf \/ DecodeFails(goType, b)
    THEN [rec |-> target, err |-> "Decode", names |-> {TypeOf(goType)}]
  ELSE IF b.type # TypeOf(goType)
    THEN [rec |-> target, err |-> "TypeMismatch", names |-> {b.type, TypeOf(goType)}]
  ELSE [rec |-> [time |-> [wall |-> b.time, mono |-> 0], pc |-> 0,
                 Event |-> DecodeEvent(goType, b)],
        err |-> "nil", names |-> {}]

\* A mutation of UnmarshalRecordOf: the tag of the envelope is not compared.
UnmarshalRecordOfAnyTag(goType, b) ==
  IF DecodeFails(goType, b)
    THEN [rec |-> ZeroRecord(goType), err |-> "Decode", names |-> {TypeOf(goType)}]
  ELSE [rec |-> [time |-> [wall |-> b.time, mono |-> 0], pc |-> 0,
                 Event |-> DecodeEvent(goType, b)],
        err |-> "nil", names |-> {}]

\* lbevent.UnmarshalRecord[T]: UnmarshalJSON on a zero record; the record is
\* returned with the error.
UnmarshalRecordOf(goType, b) == UnmarshalJSON(ZeroRecord(goType), b)

(***************************************************************************)
(* The event registry.                                                     *)
(***************************************************************************)

NoCall == [op |-> "none", in |-> <<>>, id |-> 0, ok |-> FALSE, types |-> <<>>,
           rec |-> NilRecord, err |-> "nil", names |-> {}, invoked |-> <<>>]

StartIDs == {0, 1000}

\* A mutation of NewRegistry: next is one past the starting ID.
NewRegistryOffByOne(startID) ==
  /\ types = <<>>
  /\ ids = <<>>
  /\ unmarshalers = <<>>
  /\ nextID = startID + 1

\* NewRegistry(start): no types, empty maps, next the starting ID.
NewRegistry(startID) ==
  /\ types = <<>>
  /\ ids = <<>>
  /\ unmarshalers = <<>>
  /\ nextID = startID

RegistryInit ==
  /\ start \in StartIDs
  /\ NewRegistry(start)
  /\ last = NoCall

\* A mutation of AddOne: the decoder of a registered type is kept.
AddOneKeepsDecoder(reg, event) ==
  IF event.Type \notin DOMAIN reg.ids
    THEN [types |-> Append(reg.types, event.Type),
          ids |-> Put(reg.ids, event.Type, reg.next),
          unmarshalers |-> Put(reg.unmarshalers, event.Type, event.Unmarshaler),
          next |-> reg.next + 1]
    ELSE reg

\* Registry.Add, the body of the loop: a type seen for the first time gets
\* the next ID and joins the list of types; the decoder is set in any case.
AddOne(reg, event) ==
  IF event.Type \notin DOMAIN reg.ids
    THEN [types |-> Append(reg.types, event.Type),
          ids |-> Put(reg.ids, event.Type, reg.next),
          unmarshalers |-> Put(reg.unmarshalers, event.Type, event.Unmarshaler),
          next |-> reg.next + 1]
    ELSE [reg EXCEPT !.unmarshalers = Put(reg.unmarshalers, event.Type, event.Unmarshaler)]

RECURSIVE AddEvents(_, _)
\* Registry.Add, the loop over the registrations in the order given.
AddEvents(reg, events) ==
  IF events = <<>> THEN reg ELSE AddEvents(AddOne(reg, Head(events)), Tail(events))

\* A mutation of Add: every registration consumes an ID, also the one of a
\* type that has one.
AddCountsAll(events) ==
  LET reg == AddEvents([types |-> types, ids |-> ids, unmarshalers |-> unmarshalers,
                        next |-> nextID], events)
  IN
  /\ types' = reg.types
  /\ ids' = reg.ids
  /\ unmarshalers' = reg.unmarshalers
  /\ nextID' = nextID + Len(events)
  /\ last' = [NoCall EXCEPT !.op = "Add", !.in = events]
  /\ UNCHANGED start

\* Registry.Add(events...), under the write lock.
Add(events) ==
  LET reg == AddEvents([types |-> types, ids |-> ids, unmarshalers |-> unmarshalers,
                        next |-> nextID], events)
  IN
  /\ types' = reg.types
  /\ ids' = reg.ids
  /\ unmarshalers' = reg.unmarshalers
  /\ nextID' = reg.next
  /\ last' = [NoCall EXCEPT !.op = "Add", !.in = events]
  /\ UNCHANGED start

\* events.Add(lbdeployevent.Registrations...)
AddRegistrations == Add(Registrations)

\* Registry.EventID(event)
EventID(event) ==
  /\ last' = [NoCall EXCEPT !.op = "EventID", !.in = event,
                            !.id = IF event \in DOMAIN ids THEN ids[event] ELSE 0,
                            !.ok = event \in DOMAIN ids]
  /\ UNCHANGED <<types, ids, unmarshalers, nextID, start>>

\* A mutation of Types: the newest type comes first.
TypesNewestFirst ==
  /\ last' = [NoCall EXCEPT !.op = "Types", !.types = Reverse(types)]
  /\ UNCHANGED <<types, ids, unmarshalers, nextID, start>>

\* Registry.Types()
Types ==
  /\ last' = [NoCall EXCEPT !.op = "Types", !.types = types]
  /\ UNCHANGED <<types, ids, unmarshalers, nextID, start>>

\* A mutation of Dispatch: an envelope of an unregistered type goes to the
\* decoder of the first registered type.
DispatchFallsBack(b) ==
  IF ~b.wf
    THEN [rec |-> NilRecord, err |-> "HeaderParse", names |-> {}, invoked |-> <<>>]
  ELSE IF b.type \notin DOMAIN unmarshalers
    THEN IF types = <<>>
           THEN [rec |-> NilRecord, err |-> "UnrecognizedType", names |-> {b.type}, invoked |-> <<>>]
           ELSE [rec |-> UnmarshalRecordOf(unmarshalers[types[1]].goType, b).rec,
                 err |-> UnmarshalRecordOf(unmarshalers[types[1]].goType, b).err,
                 names |-> UnmarshalRecordOf(unmarshalers[types[1]].goType, b).names,
                 invoked |-> <<unmarshalers[types[1]]>>]
  ELSE [rec |-> UnmarshalRecordOf(unmarshalers[b.type].goType, b).rec,
        err |-> UnmarshalRecordOf(unmarshalers[b.type].goType, b).err,
        names |-> UnmarshalRecordOf(unmarshalers[b.type].goType, b).names,
        invoked |-> <<unmarshalers[b.type]>>]

\* Registry.UnmarshalRecord, what it returns and the decoders it invokes:
\* the header is parsed for the type, and the decoder registered for the
\* type is given the bytes.
Dispatch(b) ==
  IF ~b.wf
    THEN [rec |-> NilRecord, err |-> "HeaderParse", names |-> {}, invoked |-> <<>>]
  ELSE IF b.type \notin DOMAIN unmarshalers
    THEN [rec |-> NilRecord, err |-> "UnrecognizedType", names |-> {b.type}, invoked |-> <<>>]
  ELSE [rec |-> UnmarshalRecordOf(unmarshalers[b.type].goType, b).rec,
        err |-> UnmarshalRecordOf(unmarshalers[b.type].goType, b).err,
        names |-> UnmarshalRecordOf(unmarshalers[b.type].goType, b).names,
        invoked |-> <<unmarshalers[b.type]>>]

\* A mutation of UnmarshalRecord: a decoder that fails is dropped from the
\* registry.
UnmarshalRecordDropsDecoder(b) ==
  /\ last' = [NoCall EXCEPT !.op = "UnmarshalRecord", !.in = b,
                            !.rec = Dispatch(b).rec,
                            !.err = Dispatch(b).err,
                            !.names = Dispatch(b).names,
                            !.invoked = Dispatch(b).invoked]
  /\ unmarshalers' = IF Dispatch(b).err \in {"Decode", "TypeMismatch"}
                       THEN [t \in DOMAIN unmarshalers \ {b.type} |-> unmarshalers[t]]
                       ELSE unmarshalers
  /\ UNCHANGED <<types, ids, nextID, start>>

\* Registry.UnmarshalRecord(b), under the read lock.
UnmarshalRecord(b) ==
  /\ last' = [NoCall EXCEPT !.op = "UnmarshalRecord", !.in = b,
                            !.rec = Dispatch(b).rec,
                            !.err = Dispatch(b).err,
                            !.names = Dispatch(b).names,
                            !.invoked = Dispatch(b).invoked]
  /\ UNCHANGED <<types, ids, unmarshalers, nextID, start>>

(***************************************************************************)
(* Records: their construction, their accessors and their decoding.        *)
(***************************************************************************)

\* FlowStarted.Level, FlowStopped.Level
EventLevel(event) ==
  IF event.goType = "FlowStopped" /\ event.Err # "nil" THEN "ERROR" ELSE "INFO"

\* FlowStarted.Message, FlowStopped.Message (of a flow without actions)
EventMessage(event) ==
  IF event.goType = "FlowStarted" THEN event.Flow \o ": Starting."
  ELSE IF event.Err # "nil"
    THEN event.Flow \o ": Stopped after encountering an error: " \o event.Err \o "."
  ELSE event.Flow \o ": Completed."

\* FlowStarted.Details, FlowStopped.Details (of a flow without actions)
EventDetails(event) == ""

\* FlowStarted.Attrs, FlowStopped.Attrs
EventAttrs(event) ==
  IF event.goType = "FlowStopped" /\ event.Err # "nil"
    THEN <<<<"flow", event.Flow>>, <<"error", event.Err>>>>
    ELSE <<<<"flow", event.Flow>>>>

\* RecordOf.Time
Time(rec) == rec.time

\* RecordOf.Type
Type(rec) == TypeOf(rec.Event.goType)

\* RecordOf.Level
Level(rec) == EventLevel(rec.Event)

\* RecordOf.Message
Message(rec) == EventMessage(rec.Event)

\* RecordOf.Details
Details(rec) == EventDetails(rec.Event)

\* RecordOf.Attrs
Attrs(rec) == EventAttrs(rec.Event)

\* RecordOf.ToLog: the slog.Record of the time, the level, the message and
\* the program counter, with the attributes added.
ToLog(rec) ==
  [Time |-> rec.time, Level |-> EventLevel(rec.Event), Message |-> EventMessage(rec.Event),
   PC |-> rec.pc, Attrs |-> EventAttrs(rec.Event)]

\* The accessors of a record, by name.
Accessors == {"Time", "Type", "Level", "Message", "Details", "Attrs", "ToLog", "MarshalJSON"}

Access(op, rec) ==
  CASE op = "Time" -> Time(rec)
    [] op = "Type" -> Type(rec)
    [] op = "Level" -> Level(rec)
    [] op = "Message" -> Message(rec)
    [] op = "Details" -> Details(rec)
    [] op = "Attrs" -> Attrs(rec)
    [] op = "ToLog" -> ToLog(rec)
    [] op = "MarshalJSON" -> MarshalJSON(rec)

\* The readings of the clock: wall clock instants with the monotonic
\* reading that time.Now attaches.
MaxClock == 2
ClockReadings == {[wall |-> w, mono |-> w + 6] : w \in 1..MaxClock}

\* The program counters the model gives to NewRecord.
PCs == {0, 1}

\* No call on a record.
NoRecordCall ==
  [op |-> "none", at |-> [wall |-> 0, mono |-> 0], pc |-> 0, event |-> ZeroEvent("FlowStarted"),
   now |-> [wall |-> 0, mono |-> 0], b |-> Malformed, err |-> "nil", value |-> ""]

\* No record is worked on.
RecordIdle ==
  /\ clock = [wall |-> 1, mono |-> 7]
  /\ record = ZeroRecord("FlowStarted")
  /\ recordOut = NoRecordCall

\* var record RecordOf[T], for an event type T of the model.
RecordInit ==
  /\ clock = [wall |-> 1, mono |-> 7]
  /\ record \in {ZeroRecord(goType) : goType \in {"FlowStarted", "FlowStopped"}}
  /\ recordOut = NoRecordCall

\* Time passes.
Tick ==
  /\ clock.wall < MaxClock
  /\ clock' = [wall |-> clock.wall + 1, mono |-> clock.mono + 1]
  /\ UNCHANGED <<record, recordOut>>

\* record = NewRecord(at, pc, event)
CallNewRecord(at, pc, event) ==
  /\ record' = NewRecord(at, pc, event)
  /\ recordOut' = [NoRecordCall EXCEPT !.op = "NewRecord", !.at = at, !.pc = pc,
                                      !.event = event, !.now = clock]
  /\ UNCHANGED clock

\* record.Time(), record.Type(), ... record.MarshalJSON(): the receiver is
\* a copy of the record.
CallAccessor(op) ==
  /\ recordOut' = [NoRecordCall EXCEPT !.op = op, !.value = Access(op, record)]
  /\ UNCHANGED <<clock, record>>

\* record.UnmarshalJSON(b)
CallUnmarshalJSON(b) ==
  /\ record' = UnmarshalJSON(record, b).rec
  /\ recordOut' = [NoRecordCall EXCEPT !.op = "UnmarshalJSON", !.b = b,
                                      !.err = UnmarshalJSON(record, b).err]
  /\ UNCHANGED clock

(***************************************************************************)
(* Paths of resolved references.                                           *)
(***************************************************************************)

\* The Path fragments of the model, as written in a deployment, and their
\* elements (the fragment cut at every slash).
Fragments == {"Acme", "Tool", "Acme/Sub", ".", "../up", "C:/x", ""}

Elements(path) ==
  CASE path = "Acme/Sub" -> <<"Acme", "Sub">>
    [] path = "../up" -> <<"..", "up">>
    [] path = "C:/x" -> <<"C:", "x">>
    [] OTHER -> <<path>>

\* Elements that a local path cannot hold: the empty element, the dot
\* elements of io/fs.ValidPath, and an element with a colon (Windows).
BadElements == {"", ".", "..", "C:"}

RECURSIVE JoinElements(_)
\* The elements of a fragment with the separator of the operating system.
JoinElements(elements) ==
  IF Len(elements) = 1 THEN elements[1]
  ELSE elements[1] \o "\\" \o JoinElements(Tail(elements))

\* A mutation of Localize: every fragment is accepted.
LocalizeUnchecked(path) ==
  [path |-> JoinElements(Elements(path)), err |-> "nil"]

\* filepath.Localize: the fragment with the separators of the operating
\* system, or an error when the fragment is not a valid local path.
Localize(path) ==
  IF path = "."
    THEN [path |-> ".", err |-> "nil"]
  ELSE IF \E i \in 1..Len(Elements(path)) : Elements(path)[i] \in BadElements
    THEN [path |-> "", err |-> "InvalidPath"]
  ELSE [path |-> JoinElements(Elements(path)), err |-> "nil"]

\* filepath.Join of a clean path and a localized fragment.
Join(path, localized) ==
  IF localized = "." THEN path
  ELSE IF path = "" THEN localized
  ELSE path \o "\\" \o localized

RECURSIVE PathLoop(_, _)
\* DirRef.Path, the loop over the lineage: the first fragment that cannot
\* be localized ends it with an empty path and the error.
PathLoop(path, lineage) ==
  IF lineage = <<>> THEN [path |-> path, err |-> "nil"]
  ELSE LET localized == Localize(Head(lineage).Path) IN
       IF localized.err # "nil"
         THEN [path |-> "", err |-> localized.err]
         ELSE PathLoop(Join(path, localized.path), Tail(lineage))

\* DirRef.Path
DirRefPath(ref) == PathLoop(ref.Root.Path, ref.Lineage)

\* FileRef.Dir
Dir(ref) == [Root |-> ref.Root, Lineage |-> ref.Lineage]

\* FileRef.Path
FileRefPath(ref) ==
  LET dir == DirRefPath(Dir(ref))
      localized == Localize(ref.FilePath)
  IN
  IF dir.err # "nil" THEN [path |-> "", err |-> dir.err]
  ELSE IF localized.err # "nil" THEN [path |-> "", err |-> localized.err]
  ELSE [path |-> Join(dir.path, localized.path), err |-> "nil"]

NoPath == [op |-> "none", path |-> "", err |-> "nil"]

\* The resolved file of the example of the documentation: a file of dirB,
\* dirB in dirA, dirA in the program files folder.
ExampleFileRef ==
  [Root |-> [ID |-> ProgramFiles, Path |-> "C:\\Program Files"],
   Lineage |-> <<[Location |-> ProgramFiles, Path |-> "Acme"],
                 [Location |-> "dirA", Path |-> "Tool"]>>,
   FileID |-> "fileB", FilePath |-> "app.exe"]

\* No path is asked for.
PathIdle ==
  /\ pathIn = ExampleFileRef
  /\ pathOut = NoPath

\* A resolved file: the one of the example, or a known folder, a lineage of
\* up to MaxLineage directories and the file's own fragment.
PathInit ==
  /\ pathIn \in {ExampleFileRef} \cup
                 [Root : {[ID |-> ProgramFiles, Path |-> "C:\\Program Files"]},
                  Lineage : UNION {[1..n -> [Location : {""}, Path : Fragments]] : n \in 0..MaxLineage},
                  FileID : {"fileB"},
                  FilePath : Fragments \cup {"app.exe"}]
  /\ pathOut = NoPath

\* ref.Dir().Path() is called.
CallDirPath ==
  /\ pathOut' = [op |-> "DirRef.Path", path |-> DirRefPath(Dir(pathIn)).path,
                 err |-> DirRefPath(Dir(pathIn)).err]
  /\ UNCHANGED pathIn

\* ref.Path() is called.
CallFilePath ==
  /\ pathOut' = [op |-> "FileRef.Path", path |-> FileRefPath(pathIn).path,
                 err |-> FileRefPath(pathIn).err]
  /\ UNCHANGED pathIn

(***************************************************************************)
(* Paths of resolved registry keys.                                        *)
(***************************************************************************)

\* PredefinedKeyUnknown, PredefinedKeyLocalMachine
PredefinedKeys == {0, 1}

predefinedRegistryKeyStrings == <<"HKEY_UNKNOWN", "HKEY_LOCAL_MACHINE">>

\* PredefinedRegistryKey.String
String(key) == predefinedRegistryKeyStrings[key + 1]

\* RegistryRoot.AbsolutePath: the predefined key, joined with the path of
\* the root when it has one; the error is always nil.
AbsolutePath(root) ==
  [path |-> IF root.Path # "" THEN Join(String(root.PredefinedKey), root.Path)
            ELSE String(root.PredefinedKey),
   err |-> "nil"]

\* The Name and Path fields of the registry keys of the model.
KeyResourceNames == {"", "Acme"}
KeyResourcePaths == {"", "Tool", "Acme/Sub", "../up"}

RECURSIVE KeyPathLoop(_, _)
\* RegistryKeyRef.Path, the loop over the lineage: the switch takes the
\* Name of a key that has one, else its Path, localized, and fails for a
\* key that has neither.
KeyPathLoop(path, lineage) ==
  IF lineage = <<>> THEN [path |-> path, err |-> "nil"]
  ELSE LET key == Head(lineage) IN
       IF key.Name # ""
         THEN KeyPathLoop(path \o "\\" \o key.Name, Tail(lineage))
       ELSE IF key.Path # ""
         THEN LET localized == Localize(key.Path) IN
              IF localized.err # "nil"
                THEN [path |-> "", err |-> localized.err]
                ELSE KeyPathLoop(Join(path, localized.path), Tail(lineage))
       ELSE [path |-> "", err |-> "NoNameOrPath"]

\* RegistryKeyRef.Path
RegistryKeyRefPath(ref) ==
  LET root == AbsolutePath(ref.Root) IN
  IF root.err # "nil" THEN [path |-> "", err |-> root.err]
  ELSE KeyPathLoop(root.path, ref.Lineage)

\* The resolved key of the example: Acme under HKEY_LOCAL_MACHINE\SOFTWARE.
ExampleKeyRef ==
  [Root |-> [ID |-> Software, PredefinedKey |-> 1, Path |-> "SOFTWARE"],
   Lineage |-> <<[Location |-> Software, Name |-> "Acme", Path |-> ""]>>]

\* No path of a key is asked for.
KeyPathIdle ==
  /\ keyIn = ExampleKeyRef
  /\ keyOut = NoPath

\* A resolved key: the one of the example, or a registry root and a lineage
\* of up to MaxLineage keys with any Name and Path.
KeyPathInit ==
  /\ keyIn \in {ExampleKeyRef} \cup
                [Root : [ID : {Software}, PredefinedKey : PredefinedKeys, Path : {"", "SOFTWARE"}],
                 Lineage : UNION {[1..n -> [Location : {""}, Name : KeyResourceNames,
                                            Path : KeyResourcePaths]] : n \in 0..MaxLineage}]
  /\ keyOut = NoPath

\* ref.Path() is called on the key.
CallKeyPath ==
  /\ keyOut' = [op |-> "RegistryKeyRef.Path", path |-> RegistryKeyRefPath(keyIn).path,
                err |-> RegistryKeyRefPath(keyIn).err]
  /\ UNCHANGED keyIn

(***************************************************************************)
(* OpenDir: the directory of a resolved reference is opened level by       *)
(* level, each level through the handle of its parent.                     *)
(***************************************************************************)

\* No *os.Root.
NoHandle == -1

\* The zero Dir.
ZeroDir == [root |-> NoHandle, path |-> ""]

\* No OpenDir call.
IdleOpen ==
  [pc |-> "idle", ref |-> ZeroRef, i |-> 0, root |-> NoHandle, parent |-> NoHandle,
   path |-> "", failed |-> FALSE, dir |-> ZeroDir, err |-> "nil"]

\* The references OpenDir is called with: a known folder, with or without
\* a path, and a lineage of up to MaxLineage directories.
OpenDirRefs ==
  [Root : {[ID |-> ProgramFiles, Path |-> "C:\\Program Files"], [ID |-> ProgramFiles, Path |-> ""]},
   Lineage : UNION {[1..n -> [Location : {""}, Path : Fragments]] : n \in 0..MaxLineage}]

\* Nothing is opened.
OpenDirIdle ==
  /\ opening = IdleOpen
  /\ handles = {}

\* OpenDir(ref): a root with an empty path is refused, else the path starts
\* as the path of the known folder.
CallOpenDir(ref) ==
  /\ opening.pc = "idle"
  /\ handles = {}
  /\ opening' = IF ref.Root.Path = ""
                  THEN [IdleOpen EXCEPT !.pc = "returned", !.ref = ref, !.err = "EmptyRootPath"]
                  ELSE [IdleOpen EXCEPT !.pc = "root", !.ref = ref, !.path = ref.Root.Path]
  /\ UNCHANGED handles

\* os.OpenRoot(ref.Root.Path): the handle of the known folder, or an error
\* that OpenDir returns.
OpenRoot(ok) ==
  /\ opening.pc = "root"
  /\ IF ok
       THEN /\ handles' = handles \cup {0}
            /\ opening' = [opening EXCEPT !.pc = "loop", !.root = 0, !.i = 1]
       ELSE /\ opening' = [opening EXCEPT !.pc = "returned", !.err = "Open"]
            /\ UNCHANGED handles

\* The loop over the lineage, filepath.Localize and filepath.Join: a path
\* that cannot be localized makes OpenDir return the error at once.
LoopLocalize ==
  /\ opening.pc = "loop"
  /\ opening.i <= Len(opening.ref.Lineage)
  /\ LET localized == Localize(opening.ref.Lineage[opening.i].Path) IN
     opening' = IF localized.err # "nil"
                  THEN [opening EXCEPT !.pc = "returned", !.err = localized.err]
                  ELSE [opening EXCEPT !.pc = "descend",
                                       !.path = Join(opening.path, localized.path)]
  /\ UNCHANGED handles

\* parent := root; root, err = parent.OpenRoot(next.Path)
Descend(ok) ==
  /\ opening.pc = "descend"
  /\ IF ok
       THEN /\ handles' = handles \cup {opening.i}
            /\ opening' = [opening EXCEPT !.pc = "close", !.parent = opening.root,
                                          !.root = opening.i]
       ELSE /\ opening' = [opening EXCEPT !.pc = "close", !.parent = opening.root,
                                          !.root = NoHandle, !.failed = TRUE]
            /\ UNCHANGED handles

\* parent.Close(), and the return of the error of the descent if any.
CloseParent ==
  /\ opening.pc = "close"
  /\ handles' = handles \ {opening.parent}
  /\ opening' = IF opening.failed
                  THEN [opening EXCEPT !.pc = "returned", !.err = "Open"]
                  ELSE [opening EXCEPT !.pc = "loop", !.i = opening.i + 1]

\* The loop is over: the Dir of the last handle and of the path.
ReturnDir ==
  /\ opening.pc = "loop"
  /\ opening.i > Len(opening.ref.Lineage)
  /\ opening' = [opening EXCEPT !.pc = "returned",
                                !.dir = [root |-> opening.root, path |-> opening.path]]
  /\ UNCHANGED handles

\* Dir.Close, by the caller of a successful OpenDir.
DirClose ==
  /\ opening.pc = "returned"
  /\ opening.err = "nil"
  /\ handles' = handles \ {opening.dir.root}
  /\ opening' = [opening EXCEPT !.pc = "closed"]

\* The caller is done with the call.
Done ==
  /\ opening.pc \in {"returned", "closed"}
  /\ opening.err # "nil" \/ opening.pc = "closed"
  /\ opening' = IdleOpen
  /\ UNCHANGED handles

(***************************************************************************)
(* The registry under its mutex: Add holds the write lock for the whole    *)
(* loop, EventID, Types and UnmarshalRecord hold the read lock.            *)
(***************************************************************************)

\* The goroutines that call EventID, Types and UnmarshalRecord.
Readers == {"r1", "r2"}

\* The fields of the Registry that the mutex guards.
RegistryState ==
  [types |-> types, ids |-> ids, unmarshalers |-> unmarshalers, next |-> nextID]

\* The goroutine that calls Add, outside of a call.
IdleWriter == [pc |-> "idle", events |-> <<>>, i |-> 0, id |-> 0]

\* A goroutine that reads, outside of a call.
IdleReader == [pc |-> "idle", op |-> "none", seen |-> <<>>]

\* Nobody calls the registry.
RWIdle ==
  /\ mutex = [writer |-> "free", readers |-> {}]
  /\ writer = IdleWriter
  /\ readers = [r \in Readers |-> IdleReader]
  /\ window = [before |-> RegistryState, after |-> RegistryState]

\* A mutation of ReaderAdmitted: the read lock is given at any time.
ReaderAdmittedAlways == TRUE

\* sync.RWMutex.RLock returns once no writer holds the lock or waits for it.
ReaderAdmitted == mutex.writer = "free"

\* Add: r.mutex.Lock() is called; readers arriving from now on wait.
AddLock(events) ==
  /\ writer.pc = "idle"
  /\ mutex.writer = "free"
  /\ mutex' = [mutex EXCEPT !.writer = "pending"]
  /\ writer' = [IdleWriter EXCEPT !.pc = "locking", !.events = events]
  /\ UNCHANGED <<registryVars, readers, window>>

\* Add: r.mutex.Lock() returns once the readers holding the lock are gone.
AddLocked ==
  /\ writer.pc = "locking"
  /\ mutex.readers = {}
  /\ mutex' = [mutex EXCEPT !.writer = "held"]
  /\ writer' = [writer EXCEPT !.pc = "loop", !.i = 1]
  /\ window' = [before |-> RegistryState,
                after |-> AddEvents(RegistryState, writer.events)]
  /\ UNCHANGED <<registryVars, readers>>

\* Add, the loop: the test of r.ids[event.Type], and for a new type
\* id := r.next; r.next++.
AddTest ==
  /\ writer.pc = "loop"
  /\ writer.i <= Len(writer.events)
  /\ IF writer.events[writer.i].Type \notin DOMAIN ids
       THEN /\ nextID' = nextID + 1
            /\ writer' = [writer EXCEPT !.pc = "ids", !.id = nextID]
       ELSE /\ writer' = [writer EXCEPT !.pc = "unmarshalers"]
            /\ UNCHANGED nextID
  /\ UNCHANGED <<types, ids, unmarshalers, start, last, mutex, readers, window>>

\* Add, the loop: r.ids[event.Type] = id
AddSetID ==
  /\ writer.pc = "ids"
  /\ ids' = Put(ids, writer.events[writer.i].Type, writer.id)
  /\ writer' = [writer EXCEPT !.pc = "types"]
  /\ UNCHANGED <<types, unmarshalers, nextID, start, last, mutex, readers, window>>

\* Add, the loop: r.types = append(r.types, event.Type)
AddAppend ==
  /\ writer.pc = "types"
  /\ types' = Append(types, writer.events[writer.i].Type)
  /\ writer' = [writer EXCEPT !.pc = "unmarshalers"]
  /\ UNCHANGED <<ids, unmarshalers, nextID, start, last, mutex, readers, window>>

\* Add, the loop: r.unmarshalers[event.Type] = event.Unmarshaler
AddSetUnmarshaler ==
  /\ writer.pc = "unmarshalers"
  /\ unmarshalers' = Put(unmarshalers, writer.events[writer.i].Type,
                         writer.events[writer.i].Unmarshaler)
  /\ writer' = [writer EXCEPT !.pc = "loop", !.i = writer.i + 1, !.id = 0]
  /\ UNCHANGED <<types, ids, nextID, start, last, mutex, readers, window>>

\* Add: the loop is over, the deferred r.mutex.Unlock() runs.
AddUnlock ==
  /\ writer.pc = "loop"
  /\ writer.i > Len(writer.events)
  /\ mutex' = [mutex EXCEPT !.writer = "free"]
  /\ writer' = IdleWriter
  /\ UNCHANGED <<registryVars, readers, window>>

\* EventID, Types, UnmarshalRecord: r.mutex.RLock() returns.
RLock(r) ==
  /\ readers[r].pc = "idle"
  /\ ReaderAdmitted
  /\ mutex' = [mutex EXCEPT !.readers = @ \cup {r}]
  /\ readers' = [readers EXCEPT ![r].pc = "locked"]
  /\ UNCHANGED <<registryVars, writer, window>>

\* The body of EventID, Types or UnmarshalRecord, under the read lock: the
\* call returns what the registry holds at this moment.
Read(r, op) ==
  /\ readers[r].pc = "locked"
  /\ readers' = [readers EXCEPT ![r] = [pc |-> "read", op |-> op, seen |-> RegistryState]]
  /\ UNCHANGED <<mutex, writer, window>>

ReadEventID(r, event) == Read(r, "EventID") /\ EventID(event)

ReadTypes(r) == Read(r, "Types") /\ Types

ReadUnmarshalRecord(r, b) == Read(r, "UnmarshalRecord") /\ UnmarshalRecord(b)

\* EventID, Types, UnmarshalRecord: the deferred r.mutex.RUnlock() runs.
RUnlock(r) ==
  /\ readers[r].pc = "read"
  /\ mutex' = [mutex EXCEPT !.readers = @ \ {r}]
  /\ readers' = [readers EXCEPT ![r] = IdleReader]
  /\ UNCHANGED <<registryVars, writer, window>>

\* Nothing else is called.
RestIdle == RWIdle /\ RecordIdle /\ KeyPathIdle /\ OpenDirIdle

(***************************************************************************)
(* Specification of the resolvers: one caller resolving directories and    *)
(* registry keys of a fixed resource graph, call after call.               *)
(***************************************************************************)

vars == <<resolverVars, engineVars, registryVars, pathVars, restVars>>

Init == ResolverInit /\ EngineInit /\ RegistryInit /\ PathIdle /\ RestIdle

ResolverNext ==
  /\ \/ \E id \in DirRequestIDs : ResolveDirectory("c1", id)
     \/ ResolveDirectoryWalk("c1")
     \/ \E key \in KeyRequestIDs : ResolveKey("c1", key)
     \/ ResolveKeyWalk("c1")
     \/ \E id \in FileRequestIDs : ResolveFile("c1", id)
     \/ ResolveFileReturn("c1")
     \/ \E value \in ValueRequestIDs : ResolveValue("c1", value)
     \/ ResolveValueReturn("c1")
     \/ TakeResult("c1")
  /\ UNCHANGED <<engineVars, registryVars, pathVars, restVars>>

SpecResolver == Init /\ [][ResolverNext]_vars

(***************************************************************************)
(* Specification of concurrent resolutions: the callers resolve on the     *)
(* same resolvers at the same time, their steps interleaved in every way.  *)
(***************************************************************************)

\* The graphs of the concurrent callers: every directory ID defined, with
\* any Location, so that the chains of different IDs share IDs and cycles;
\* no lookup of the operating system fails.
ConcurrentGraphs ==
  {[d \in PlainDirIDs |-> [Location |-> f[d], Path |-> SegmentOf(d)]] :
     f \in [PlainDirIDs -> DirLocations]}

ConcurrentInit ==
  /\ Directories \in ConcurrentGraphs
  /\ Keys = KeyGraphOf(Directories)
  /\ Files = FileGraph
  /\ Values = ValueGraph
  /\ osFail = {}
  /\ calls = [c \in Callers |-> IdleCall]
  /\ leaves = [c \in Callers |-> IdleLeaf]

ConcurrentSpecInit == ConcurrentInit /\ EngineInit /\ RegistryInit /\ start = 1000 /\ PathIdle /\ RestIdle

ConcurrentNext ==
  /\ \/ \E c \in Callers, id \in DirRequestIDs : ResolveDirectory(c, id)
     \/ \E c \in Callers : ResolveDirectoryWalk(c)
     \/ \E c \in Callers, key \in KeyRequestIDs : ResolveKey(c, key)
     \/ \E c \in Callers : ResolveKeyWalk(c)
     \/ \E c \in Callers, id \in FileRequestIDs : ResolveFile(c, id)
     \/ \E c \in Callers : ResolveFileReturn(c)
     \/ \E c \in Callers, value \in ValueRequestIDs : ResolveValue(c, value)
     \/ \E c \in Callers : ResolveValueReturn(c)
     \/ \E c \in Callers : TakeResult(c)
  /\ UNCHANGED <<engineVars, registryVars, pathVars, restVars>>

SpecConcurrent == ConcurrentSpecInit /\ [][ConcurrentNext]_vars

(***************************************************************************)
(* Specifications of the engine state: threads admitting and releasing     *)
(* flows, taking and releasing named locks, and using the package caches,  *)
(* over the resource graph of one deployment.                              *)
(***************************************************************************)

\* The deployment of the example of the documentation: dirB in dirA in
\* the program files folder.
ExampleInit ==
  /\ Directories = [d \in {"dirA", "dirB"} |->
                      [Location |-> IF d = "dirA" THEN ProgramFiles ELSE "dirA",
                       Path |-> SegmentOf(d)]]
  /\ Keys = KeyGraphOf(Directories)
  /\ Files = FileGraph
  /\ Values = ValueGraph
  /\ osFail = {}
  /\ calls = [c \in Callers |-> IdleCall]
  /\ leaves = [c \in Callers |-> IdleLeaf]

EngineSpecInit == ExampleInit /\ EngineInit /\ RegistryInit /\ start = 1000 /\ PathIdle /\ RestIdle

FlowsNext ==
  /\ \/ \E t \in Threads, f \in Flows : CallAdmit(t, f)
     \/ \E t \in Threads, f \in Flows : CallRelease(t, f)
     \/ \E t \in Threads : Admit(t)
     \/ \E t \in Threads : Release(t)
  /\ UNCHANGED <<resolverVars, registryVars, pathVars, restVars>>

SpecFlows == EngineSpecInit /\ [][FlowsNext]_vars

LocksNext ==
  /\ \/ \E t \in Threads, l \in Locks, mode \in LockModes : CallAcquireLock(t, l, mode)
     \/ \E t \in Threads, l \in Locks : CallReleaseLock(t, l)
     \/ \E t \in Threads : AcquireLock(t)
     \/ \E t \in Threads : ReleaseLock(t)
  /\ UNCHANGED <<resolverVars, registryVars, pathVars, restVars>>

SpecLocks == EngineSpecInit /\ [][LocksNext]_vars

\* The caches are used under the engine's mutual exclusion, one operation
\* at a time: one thread of control calls them in every order.
CacheNext ==
  /\ \/ \E kind \in PackageKinds, p \in Packages, loc \in PackageLocations :
          CallCachePackage(1, kind, p, loc)
     \/ \E kind \in PackageKinds, p \in Packages : CallLookupPackage(1, kind, p)
     \/ CachePackage(1)
     \/ LookupPackage(1)
  /\ UNCHANGED <<resolverVars, registryVars, pathVars, restVars>>

SpecCache == EngineSpecInit /\ [][CacheNext]_vars

(***************************************************************************)
(* Specification of the event registry: registrations, lookups and the     *)
(* decoding of envelopes, in every order.                                  *)
(***************************************************************************)

RegistrySpecInit == ExampleInit /\ EngineInit /\ RegistryInit /\ PathIdle /\ RestIdle

RegistryNext ==
  /\ \/ \E events \in SeqUpTo(ModelRegistrations, MaxAdd) : Add(events)
     \/ AddRegistrations
     \/ \E event \in ModelTags : EventID(event)
     \/ Types
     \/ \E b \in Inputs : UnmarshalRecord(b)
  /\ UNCHANGED <<resolverVars, engineVars, pathVars, restVars>>

SpecRegistry == RegistrySpecInit /\ [][RegistryNext]_vars

(***************************************************************************)
(* Specification of the paths: the Path methods applied to a resolved      *)
(* file, in every order.                                                   *)
(***************************************************************************)

PathSpecInit == ExampleInit /\ EngineInit /\ RegistryInit /\ start = 1000 /\ PathInit /\ RestIdle

PathNext ==
  /\ \/ CallDirPath
     \/ CallFilePath
  /\ UNCHANGED <<resolverVars, engineVars, registryVars, restVars>>

SpecPaths == PathSpecInit /\ [][PathNext]_vars

(***************************************************************************)
(* Specification of the registry under its mutex: one goroutine that calls *)
(* Add, statement by statement, and two that read.                         *)
(***************************************************************************)

\* What the goroutines of this specification call the registry with: the
\* registrations of the event types of the list, and one envelope per type
\* next to bytes that are not JSON.
LockedRegistrations ==
  {e \in ModelRegistrations : e.Type \in {FlowStartedType, FlowStoppedType}}

LockedInputs ==
  {MarshalJSON(rec) : rec \in {r \in Records : r.time.mono = 0 /\ r.Event.Err # "boom"}}
    \cup {Malformed}

LockedSpecInit == ExampleInit /\ EngineInit /\ RegistryInit /\ start = 1000 /\ PathIdle /\ RestIdle

LockedNext ==
  /\ \/ \E events \in SeqUpTo(LockedRegistrations, MaxAdd) : AddLock(events)
     \/ AddLocked
     \/ AddTest
     \/ AddSetID
     \/ AddAppend
     \/ AddSetUnmarshaler
     \/ AddUnlock
     \/ \E r \in Readers : RLock(r)
     \/ \E r \in Readers, event \in ModelTags : ReadEventID(r, event)
     \/ \E r \in Readers : ReadTypes(r)
     \/ \E r \in Readers, b \in LockedInputs : ReadUnmarshalRecord(r, b)
     \/ \E r \in Readers : RUnlock(r)
  /\ UNCHANGED <<resolverVars, engineVars, pathVars, recordVars, keyVars, dirVars>>

SpecLocked == LockedSpecInit /\ [][LockedNext]_vars

(***************************************************************************)
(* Specification of the records: one record that is constructed, read      *)
(* through its accessors and decoded into, in every order.                 *)
(***************************************************************************)

RecordSpecInit ==
  /\ ExampleInit /\ EngineInit /\ RegistryInit /\ start = 1000 /\ PathIdle /\ RWIdle
  /\ RecordInit /\ KeyPathIdle /\ OpenDirIdle

RecordNext ==
  /\ \/ Tick
     \/ \E at \in Times, pc \in PCs, event \in Events : CallNewRecord(at, pc, event)
     \/ \E op \in Accessors : CallAccessor(op)
     \/ \E b \in Inputs : CallUnmarshalJSON(b)
  /\ UNCHANGED <<resolverVars, engineVars, registryVars, pathVars, rwVars, keyVars, dirVars>>

SpecRecords == RecordSpecInit /\ [][RecordNext]_vars

(***************************************************************************)
(* Specification of the paths of registry keys: Path applied to a resolved *)
(* key.                                                                    *)
(***************************************************************************)

KeyPathSpecInit ==
  /\ ExampleInit /\ EngineInit /\ RegistryInit /\ start = 1000 /\ PathIdle /\ RWIdle
  /\ RecordIdle /\ KeyPathInit /\ OpenDirIdle

KeyPathNext ==
  /\ CallKeyPath
  /\ UNCHANGED <<resolverVars, engineVars, registryVars, pathVars, rwVars, recordVars, dirVars>>

SpecKeyPaths == KeyPathSpecInit /\ [][KeyPathNext]_vars

(***************************************************************************)
(* Specification of OpenDir: one call after the other, statement by        *)
(* statement, every open succeeding or failing.                            *)
(***************************************************************************)

OpenDirSpecInit ==
  /\ ExampleInit /\ EngineInit /\ RegistryInit /\ start = 1000 /\ PathIdle /\ RWIdle
  /\ RecordIdle /\ KeyPathIdle /\ OpenDirIdle

OpenDirNext ==
  /\ \/ \E ref \in OpenDirRefs : CallOpenDir(ref)
     \/ \E ok \in BOOLEAN : OpenRoot(ok)
     \/ LoopLocalize
     \/ \E ok \in BOOLEAN : Descend(ok)
     \/ CloseParent
     \/ ReturnDir
     \/ DirClose
     \/ Done
  /\ UNCHANGED <<resolverVars, engineVars, registryVars, pathVars, rwVars, recordVars, keyVars>>

SpecOpenDir == OpenDirSpecInit /\ [][OpenDirNext]_vars

(***************************************************************************)
(* The chain of Location pointers of a graph, defined without the walk.    *)
(***************************************************************************)

RECURSIVE ChainFrom(_, _, _)
\* The IDs id, Location(id), Location(Location(id)), ... up to the first ID
\* that the graph g does not define, at most fuel definitions long.
ChainFrom(g, id, fuel) ==
  IF fuel = 0 \/ id \notin DOMAIN g
    THEN <<id>>
    ELSE <<id>> \o ChainFrom(g, g[id].Location, fuel - 1)

\* The chain of id in g, long enough to show every revisit.
Chain(g, id) == ChainFrom(g, id, Cardinality(DOMAIN g) + 1)

\* The chain never revisits an ID.
NoRevisit(chain) == \A i, j \in 1..Len(chain) : chain[i] = chain[j] => i = j

\* A cycle of Location pointers is reachable from id.
CycleReachable(g, id) == ~NoRevisit(Chain(g, id))

\* The ID at which the chain ends.
ChainEnd(chain) == chain[Len(chain)]

\* The graph a call of the given kind walks.
GraphOf(kind) == IF kind = "dir" THEN Directories ELSE Keys

\* C1: for a directory graph in which the chain of Location pointers from id
\* never revisits an ID, ResolveDirectory(id) terminates (every iteration of
\* the walk can run, and there are no more iterations than definitions on the
\* chain); and when the chain ends at a known root it succeeds with that root
\* as Root and with exactly the definitions of the chain as Lineage, from the
\* root-adjacent definition to the definition of id.
C1_AcyclicLineage ==
  \A c \in Callers :
    LET call == calls[c]
        chain == Chain(Directories, call.id)
        n == Len(chain) - 1
        L == call.ref.Lineage
    IN
    (call.kind = "dir" /\ NoRevisit(chain)) =>
      /\ call.pc = "walk" => (call.steps < n /\ ENABLED ResolveDirectoryWalk(c))
      /\ call.pc = "done" => call.steps <= n
      /\ (call.pc = "done" /\ ResolveKnownFolder(ChainEnd(chain)).err = NoError) =>
           /\ call.err = NoError
           /\ call.ref.Root.ID = ChainEnd(chain)
           /\ Len(L) = n
           /\ n > 0 => /\ L[1].Location = call.ref.Root.ID
                       /\ L[n] = Directories[call.id]
           /\ \A i \in 1..(n - 1) : /\ L[i + 1].Location \in DOMAIN Directories
                                    /\ Directories[L[i + 1].Location] = L[i]
           /\ \A i \in 1..n : L[i] = Directories[chain[n + 1 - i]]

\* Witness of C1: a resolved directory two definitions below a known folder.
C1_Witness ==
  /\ calls["c1"].pc = "done"
  /\ calls["c1"].kind = "dir"
  /\ calls["c1"].err = NoError
  /\ NoRevisit(Chain(Directories, calls["c1"].id))
  /\ Len(calls["c1"].ref.Lineage) = 2
  /\ calls["c1"].ref.Lineage[1] # calls["c1"].ref.Lineage[2]

\* C2 as stated: when a cycle is reachable from id, ResolveDirectory and
\* ResolveKey return a cycle error after a number of iterations of the walk
\* that is at most the number of definitions of the graph.
C2_AsStated ==
  \A c \in Callers :
    LET call == calls[c] IN
    (call.pc = "done" /\ CycleReachable(GraphOf(call.kind), call.id)) =>
      /\ call.err.kind = "Cycle"
      /\ call.steps <= Cardinality(DOMAIN GraphOf(call.kind))

\* C2 as amended: when a cycle is reachable from id, ResolveDirectory and
\* ResolveKey never loop forever; they return a cycle error in an iteration
\* of the walk whose number is at most the number of definitions of the
\* graph plus one (the iteration that detects the repetition follows one
\* iteration per visited definition).
C2_CycleBound ==
  \A c \in Callers :
    LET call == calls[c]
        size == Cardinality(DOMAIN GraphOf(call.kind))
    IN
    (call.pc # "idle" /\ CycleReachable(GraphOf(call.kind), call.id)) =>
      /\ call.pc = "walk" =>
           /\ call.steps <= size
           /\ Cardinality(call.seen) = call.steps
           /\ IF call.kind = "dir" THEN ENABLED ResolveDirectoryWalk(c)
                                   ELSE ENABLED ResolveKeyWalk(c)
      /\ call.pc = "done" =>
           /\ call.err.kind = "Cycle"
           /\ call.ref = ZeroRef
           /\ call.steps <= size + 1

\* Witness of C2: a cycle error returned by the iteration whose number is
\* the number of definitions plus one.
C2_Witness ==
  /\ calls["c1"].pc = "done"
  /\ calls["c1"].err.kind = "Cycle"
  /\ Cardinality(DOMAIN GraphOf(calls["c1"].kind)) >= 2
  /\ calls["c1"].steps = Cardinality(DOMAIN GraphOf(calls["c1"].kind)) + 1

(***************************************************************************)
(* Claims about the engine state.                                          *)
(***************************************************************************)

\* The operation op of thread t returns in this step.
Returning(t, op) == Running(t, op) /\ threads'[t].pc = "ready"

\* C3: admission is an atomic test-and-insert on activeFlows: an Admit(f)
\* call succeeds exactly when f is not active at the step it runs and fails
\* with AlreadyRunning otherwise, in every interleaving of the calls of the
\* threads; so of the calls for a flow that is not active one succeeds and
\* the others fail, and f is never admitted twice without a Release(f)
\* between the two admissions.
C3_AdmitAtomic ==
  /\ [](\A f \in Flows : admitted[f] <= 1 /\ (f \in activeFlows <=> admitted[f] = 1))
  /\ [][\A t \in Threads : Returning(t, "Admit") =>
          /\ threads'[t].out = (IF threads[t].args[1] \in activeFlows
                                  THEN "AlreadyRunning" ELSE "ok")
          /\ threads[t].args[1] \in activeFlows'
          /\ \A f \in Flows \ {threads[t].args[1]} : f \in activeFlows' <=> f \in activeFlows]_vars

\* Witness of C3: of the Admit calls of two threads for flowA, one has
\* succeeded and the other has failed with AlreadyRunning.
C3_Witness ==
  /\ threads[1].out = "ok"
  /\ threads[2].out = "AlreadyRunning"
  /\ admitted["flowA"] = 1
  /\ "flowA" \in activeFlows
  /\ admitted["flowB"] = 0

\* C4: Release(f) leaves f absent from activeFlows whether or not f was
\* present, never fails and leaves every other flow ID as it was; and the
\* first Admit(f) after a Release(f) succeeds.
C4_ReleaseIdempotent ==
  /\ [](\A f \in Flows : released[f] => f \notin activeFlows)
  /\ [][\A t \in Threads : Returning(t, "Release") =>
          /\ activeFlows' = activeFlows \ {threads[t].args[1]}
          /\ threads'[t].out = "ok"]_vars
  /\ [][\A t \in Threads : (Returning(t, "Admit") /\ released[threads[t].args[1]]) =>
          /\ threads'[t].out = "ok"
          /\ threads[t].args[1] \in activeFlows']_vars

\* Witness of C4: flowA has been released while flowB stays active, a second
\* Release(flowA) and the first Admit(flowA) after the release are called.
C4_Witness ==
  /\ released["flowA"]
  /\ "flowB" \in activeFlows
  /\ Running(1, "Admit") /\ threads[1].args = <<"flowA">>
  /\ Running(2, "Release") /\ threads[2].args = <<"flowA">>

\* The threads that hold a lock ID.
Holders(lockID) == {t \in Threads : lockID \in holds[t]}

\* C5: at most one thread holds a given lock ID; an immediate-fail
\* AcquireLock never waits, and on a held lock it returns LockNotAcquired
\* and changes neither the holder nor any mutex; a blocking AcquireLock
\* returns exactly when the mutex of its own lock ID is free, whatever the
\* state of the locks with other IDs.
C5_LockExclusion ==
  /\ [](\A l \in Locks : /\ Cardinality(Holders(l)) <= 1
                         /\ Locked(l) <=> Holders(l) # {})
  /\ [](\A t \in Threads : Running(t, "AcquireLock") =>
          IF threads[t].args[2] = "try"
            THEN ENABLED AcquireLock(t)
            ELSE (ENABLED AcquireLock(t)) <=> ~Locked(threads[t].args[1]))
  /\ [][\A t \in Threads : Returning(t, "AcquireLock") =>
          IF Locked(threads[t].args[1])
            THEN /\ threads[t].args[2] = "try"
                 /\ threads'[t].out = "LockNotAcquired"
                 /\ UNCHANGED <<locks, holds>>
            ELSE /\ threads'[t].out = "ok"
                 /\ threads[t].args[1] \in holds'[t]
                 /\ \A l \in Locks \ {threads[t].args[1]} : Locked(l)' <=> Locked(l)]_vars

\* Witness of C5: thread 1 holds lockA, and thread 2, which holds lockB,
\* waits for lockA in the blocking mode.
C5_Witness ==
  /\ holds[1] = {"lockA"}
  /\ holds[2] = {"lockB"}
  /\ Running(2, "AcquireLock")
  /\ threads[2].args = <<"lockA", "block">>

\* C6: the caches memoize without eviction and the kinds are independent: a
\* never-cached package is a miss and a cached one is never a miss again;
\* LookupPackage returns the entry of its kind and package and changes no
\* cache; CachePackage(kind, p, loc) sets the entry of kind and p to loc and
\* changes no other entry; and no other operation changes an entry.
C6_CacheMemo ==
  /\ [](\A kind \in PackageKinds, p \in Packages :
          <<kind, p>> \in cachedEver <=> Entry(kind, p) # "miss")
  /\ [][\A t \in Threads : Returning(t, "LookupPackage") =>
          /\ threads'[t].out = Entry(threads[t].args[1], threads[t].args[2])
          /\ UNCHANGED <<verifiedPackageFiles, extractedPackages>>]_vars
  /\ [][\A t \in Threads : Returning(t, "CachePackage") =>
          \A kind \in PackageKinds, p \in Packages :
            Entry(kind, p)' = IF <<kind, p>> = <<threads[t].args[1], threads[t].args[2]>>
                                THEN threads[t].args[3]
                                ELSE Entry(kind, p)]_vars
  /\ [][(\A t \in Threads : ~Returning(t, "CachePackage")) =>
          UNCHANGED <<verifiedPackageFiles, extractedPackages>>]_vars

\* Witness of C6: pkgA is cached under both kinds at different locations,
\* the verified one overwritten, pkgB is cached under one kind only, and a
\* lookup has returned the overwriting location.
C6_Witness ==
  /\ Entry("verified", "pkgA") = "dir2"
  /\ Entry("extracted", "pkgA") = "dir1"
  /\ Entry("verified", "pkgB") = "miss"
  /\ Entry("extracted", "pkgB") = "dir1"
  /\ threads[1].out = "dir2"

(***************************************************************************)
(* The event registry: claims.                                             *)
(***************************************************************************)

\* The tags of a list of registrations.
TagsOf(events) == {events[i].Type : i \in 1..Len(events)}

\* The decoder of the last registration of a tag in a list.
LastDecoder(events, tag) ==
  LET i == CHOOSE k \in 1..Len(events) :
             /\ events[k].Type = tag
             /\ \A j \in (k + 1)..Len(events) : events[j].Type # tag
  IN events[i].Unmarshaler

RECURSIVE FirstSights(_, _)
\* The tags of a list that are not among the known ones, each once, in the
\* order of their first occurrence.
FirstSights(events, known) ==
  IF events = <<>> THEN <<>>
  ELSE IF Head(events).Type \in known THEN FirstSights(Tail(events), known)
  ELSE <<Head(events).Type>> \o FirstSights(Tail(events), known \cup {Head(events).Type})

\* C7: re-registration keeps the ID and swaps the decoder.  A step of Add
\* leaves the ID of every registered tag as it was and consumes one ID for
\* each tag it sees for the first time and none for the others; after it the
\* decoder of each tag it registered is the one of the last registration of
\* the tag in the call, and the decoders of the other tags are as before; no
\* other call changes the registry; EventID returns the ID on record; and an
\* envelope of a registered tag is dispatched to exactly the decoder on
\* record, which is therefore the one registered last.
C7_ReRegistration ==
  /\ [](/\ (last.op = "EventID" /\ last.in \in DOMAIN ids) =>
             (last.ok /\ last.id = ids[last.in])
        /\ (last.op = "UnmarshalRecord" /\ last.in.wf /\ last.in.type \in DOMAIN unmarshalers) =>
             last.invoked = <<unmarshalers[last.in.type]>>)
  /\ [][/\ \A tag \in DOMAIN ids : tag \in DOMAIN ids' /\ ids'[tag] = ids[tag]
        /\ last'.op = "Add" =>
             /\ nextID' = nextID + Cardinality(TagsOf(last'.in) \ DOMAIN ids)
             /\ DOMAIN unmarshalers' = DOMAIN unmarshalers \cup TagsOf(last'.in)
             /\ \A tag \in DOMAIN unmarshalers' :
                  unmarshalers'[tag] = IF tag \in TagsOf(last'.in)
                                         THEN LastDecoder(last'.in, tag)
                                         ELSE unmarshalers[tag]
        /\ last'.op # "Add" => UNCHANGED <<types, ids, unmarshalers, nextID>>]_vars

\* The list was added, which registered the first build of the decoder of
\* FlowStopped, the second build was registered after it, and an envelope of
\* a FlowStopped went to the second build; the ID is the one of the list.
C7_Witness ==
  /\ Len(types) = Len(Registrations)
  /\ ids[FlowStoppedType] = start + 1
  /\ nextID = start + Len(Registrations)
  /\ last.op = "UnmarshalRecord"
  /\ last.in.wf
  /\ last.in.type = FlowStoppedType
  /\ last.invoked = <<UnmarshalerOf("FlowStopped", 2)>>

\* C8: UnmarshalRecord on an envelope of a tag without registration returns
\* the unrecognized-type error and the nil record and invokes no decoder; on
\* bytes that are not JSON it returns the header-parse error and the nil
\* record and invokes no decoder.
C8_Unrecognized ==
  last.op = "UnmarshalRecord" =>
    /\ (last.in.wf /\ last.in.type \notin DOMAIN unmarshalers) =>
         (last.err = "UnrecognizedType" /\ last.rec = NilRecord /\ last.invoked = <<>>)
    /\ ~last.in.wf =>
         (last.err = "HeaderParse" /\ last.rec = NilRecord /\ last.invoked = <<>>)

\* An envelope of the tag of no registration met a registry with decoders.
C8_Witness ==
  /\ last.op = "UnmarshalRecord"
  /\ last.in.wf
  /\ last.in.type = CustomType
  /\ CustomType \notin DOMAIN unmarshalers
  /\ FlowStoppedType \in DOMAIN unmarshalers
  /\ last.err = "UnrecognizedType"

\* The type of a record is registered with its own decoder.
RegisteredType(rec) ==
  /\ TypeOf(rec.Event.goType) \in DOMAIN unmarshalers
  /\ unmarshalers[TypeOf(rec.Event.goType)].goType = rec.Event.goType

\* C9: round trip.  For every record of a registered event type, decoding
\* its MarshalJSON encoding with Registry.UnmarshalRecord succeeds and gives
\* a record of the same Type(), the same instant of Time() and the same
\* payload fields.
C9_RoundTrip ==
  \A rec \in Records :
    (last.op = "UnmarshalRecord" /\ last.in = MarshalJSON(rec) /\ RegisteredType(rec)) =>
      /\ last.err = "nil"
      /\ last.rec.Event.goType = rec.Event.goType
      /\ last.rec.time.wall = rec.time.wall
      /\ last.rec.Event = rec.Event

\* C10: IDs are sequential from the starting ID in the order of first
\* registration.  The list of types has each tag once; the tag at place i,
\* counted from 0, has the ID start + i; next is the first ID not assigned; a
\* step of Add appends the tags it sees for the first time, each once, in the
\* order of their first occurrence, and no other call changes the list; and
\* the list Registrations added to a fresh registry gives the entry i the ID
\* start + i.
C10_SequentialIDs ==
  /\ [](/\ DOMAIN ids = {types[i] : i \in 1..Len(types)}
        /\ \A i \in 1..Len(types) : ids[types[i]] = start + (i - 1)
        /\ \A i, j \in 1..Len(types) : i # j => ids[types[i]] # ids[types[j]]
        /\ nextID = start + Len(types))
  /\ [][/\ last'.op = "Add" => types' = types \o FirstSights(last'.in, DOMAIN ids)
        /\ last'.op # "Add" => types' = types
        /\ (types = <<>> /\ last'.op = "Add" /\ last'.in = Registrations) =>
             \A i \in 1..Len(Registrations) :
               ids'[Registrations[i].Type] = start + (i - 1)]_vars

\* A registry with the starting ID 1000 was given a tag of its own and then
\* the list: the tag has the first ID and the entries of the list follow.
C10_Witness ==
  /\ start = 1000
  /\ last.op = "Add"
  /\ last.in = Registrations
  /\ types = <<CustomType>> \o RegisteredTags
  /\ ids[CustomType] = 1000
  /\ ids[FlowStoppedType] = 1002

(***************************************************************************)
(* Claims about the resolvers: known roots, errors and leaves.             *)
(***************************************************************************)

\* The root lookup of a call of the given kind.
RootLookup(kind, id) == IF kind = "dir" THEN ResolveKnownFolder(id) ELSE ResolveRoot(id)

\* C11: for every resource graph, with or without a definition under the ID
\* of a known root, ResolveDirectory(id) and ResolveKey(id) called with the
\* ID of a known root (whose lookup succeeds) return a reference anchored at
\* that root with an empty Lineage.
C11_KnownRootFirst ==
  \A c \in Callers :
    LET call == calls[c] IN
    (call.pc = "done" /\ RootLookup(call.kind, call.id).err = NoError) =>
      /\ call.err = NoError
      /\ call.ref.Root.ID = call.id
      /\ call.ref.Lineage = <<>>

\* The ID x lies on a cycle of Location pointers of the graph g.
OnCycle(g, x) ==
  /\ x \in DOMAIN g
  /\ \E i \in 2..Len(Chain(g, x)) : Chain(g, x)[i] = x

\* The graph has the two-definition cycle x -> y -> x.
TwoCycle(g, x, y) ==
  /\ {x, y} \subseteq DOMAIN g
  /\ g[x].Location = y
  /\ g[y].Location = x

\* C12: when ResolveDirectory(id) fails because of a cycle, the error names
\* the requested id and the ID at which the repetition was detected, and
\* that ID is on the chain of id and a member of a cycle; for the cycle
\* dirA -> dirB -> dirA, ResolveDirectory("dirA") fails with a cycle error
\* that names "dirA" and "dirB".
C12_CycleErrorNames ==
  \A c \in Callers :
    LET call == calls[c] IN
    (call.pc = "done" /\ call.kind = "dir") =>
      /\ call.err.kind = "Cycle" =>
           /\ call.err.id = call.id
           /\ OnCycle(Directories, call.err.at)
           /\ \E i \in 1..Len(Chain(Directories, call.id)) :
                Chain(Directories, call.id)[i] = call.err.at
      /\ (TwoCycle(Directories, "dirA", "dirB") /\ call.id = "dirA") =>
           call.err = ResolveError("Cycle", "dirA", "dirB")

\* ResolveDirectory("dirA") has failed on the cycle dirA -> dirB -> dirA.
C12_Witness ==
  /\ TwoCycle(Directories, "dirA", "dirB")
  /\ calls["c1"].pc = "done"
  /\ calls["c1"].kind = "dir"
  /\ calls["c1"].id = "dirA"
  /\ calls["c1"].err.kind = "Cycle"
  /\ leaves["c1"].pc = "idle"

\* A fragment is a valid local-relative path: the dot, or elements none of
\* which is empty, a dot element or an element with a drive letter.
ValidFragment(path) ==
  \/ path = "."
  \/ \A i \in 1..Len(Elements(path)) : Elements(path)[i] \notin BadElements

RECURSIVE Joined(_, _, _)
\* The root path joined with the first n fragments, in their order.
Joined(root, fragments, n) ==
  IF n = 0 THEN root
  ELSE IF fragments[n] = "." THEN Joined(root, fragments, n - 1)
  ELSE Joined(root, fragments, n - 1) \o "\\" \o JoinElements(Elements(fragments[n]))

\* The Path fragments of the lineage of the reference.
LineageFragments == [i \in 1..Len(pathIn.Lineage) |-> pathIn.Lineage[i].Path]

\* C13: DirRef.Path() returns the root's path joined with the Path fragment
\* of each lineage element in lineage order, and fails with an empty path
\* when a fragment of the lineage is not a valid local-relative path;
\* FileRef.Path() is the directory path joined with the file's own fragment
\* under the same rule.  For the root path C:\Program Files and the lineage
\* Acme, Tool the directory path is C:\Program Files\Acme\Tool.
C13_Path ==
  LET fragments == LineageFragments
      n == Len(fragments)
      dirValid == \A i \in 1..n : ValidFragment(fragments[i])
  IN
  /\ pathOut.op = "DirRef.Path" =>
       IF dirValid
         THEN pathOut.err = "nil" /\ pathOut.path = Joined(pathIn.Root.Path, fragments, n)
         ELSE pathOut.err # "nil" /\ pathOut.path = ""
  /\ pathOut.op = "FileRef.Path" =>
       IF dirValid /\ ValidFragment(pathIn.FilePath)
         THEN /\ pathOut.err = "nil"
              /\ pathOut.path = Joined(pathIn.Root.Path, Append(fragments, pathIn.FilePath), n + 1)
         ELSE pathOut.err # "nil" /\ pathOut.path = ""
  /\ (pathOut.op = "DirRef.Path" /\ Dir(pathIn) = Dir(ExampleFileRef)) =>
       pathOut.path = "C:\\Program Files\\Acme\\Tool"

\* The path of the directory of the example was computed.
C13_Witness ==
  /\ Dir(pathIn) = Dir(ExampleFileRef)
  /\ pathOut = [op |-> "DirRef.Path", path |-> "C:\\Program Files\\Acme\\Tool", err |-> "nil"]

(***************************************************************************)
(* The result of a resolution run alone, from its first statement to its   *)
(* return, on the graph of the state.                                      *)
(***************************************************************************)

RECURSIVE WalkAlone(_, _, _, _, _)
\* The ancestor walk run to its end: the iterations in sequence.
WalkAlone(kind, id, lineage, seen, next) ==
  LET g == GraphOf(kind) IN
  IF next \in seen
    THEN [ref |-> ZeroRef, err |-> ResolveError("Cycle", id, next)]
  ELSE IF next \in DOMAIN g
    THEN IF g[next].Location = ""
           THEN [ref |-> ZeroRef, err |-> ResolveError("NoLocation", id, next)]
           ELSE WalkAlone(kind, id, <<g[next]>> \o lineage, seen \cup {next}, g[next].Location)
  ELSE IF RootLookup(kind, next).err = NoError
    THEN [ref |-> [Root |-> RootLookup(kind, next).root, Lineage |-> lineage], err |-> NoError]
  ELSE IF RootLookup(kind, next).err # ErrNotExist
    THEN [ref |-> ZeroRef, err |-> RootLookup(kind, next).err]
  ELSE [ref |-> ZeroRef, err |-> ResolveError("NotDefined", id, next)]

\* ResolveDirectory(id) (kind "dir") or ResolveKey(id) (kind "key") run alone.
RunAlone(kind, id) ==
  LET g == GraphOf(kind) IN
  IF id \notin DOMAIN g
    THEN IF RootLookup(kind, id).err = NoError
           THEN [ref |-> [Root |-> RootLookup(kind, id).root, Lineage |-> <<>>], err |-> NoError]
         ELSE IF RootLookup(kind, id).err # ErrNotExist
           THEN [ref |-> ZeroRef, err |-> RootLookup(kind, id).err]
         ELSE [ref |-> ZeroRef, err |-> ResolveError("NotDefined", id, id)]
  ELSE IF g[id].Location = ""
    THEN [ref |-> ZeroRef, err |-> ResolveError("NoLocation", id, id)]
  ELSE WalkAlone(kind, id, <<g[id]>>, {}, g[id].Location)

\* The leaf map of a leaf call, the parent of a leaf in it, and the kind of
\* the resolution of the parent.
LeavesOf(kind) == IF kind = "file" THEN Files ELSE Values
ParentOf(kind, id) == IF kind = "file" THEN Files[id].Location ELSE Values[id].Key
ParentKind(kind) == IF kind = "file" THEN "dir" ELSE "key"
RootsOf(kind) == IF kind = "dir" THEN knownFolders ELSE registryRoots

C15_AllOrNothing ==
  \A c \in Callers :
    /\ calls[c].pc = "done" =>
         IF calls[c].err # NoError
           THEN calls[c].ref = ZeroRef
           ELSE /\ calls[c].ref.Root.ID \in RootsOf(calls[c].kind)
                /\ calls[c].ref.Root = RootLookup(calls[c].kind, calls[c].ref.Root.ID).root
    /\ leaves[c].pc = "done" =>
         IF leaves[c].err # NoLeafError
           THEN leaves[c].ref = ZeroLeafRef
           ELSE /\ leaves[c].ref.Root.ID \in RootsOf(ParentKind(leaves[c].kind))
                /\ leaves[c].ref.ID = leaves[c].id

\* A walk failed in its third iteration, two definitions gathered, and
\* returned the zero reference.
C15_Witness ==
  /\ calls["c1"].pc = "done"
  /\ calls["c1"].err # NoError
  /\ calls["c1"].steps = 3
  /\ calls["c1"].ref = ZeroRef
  /\ leaves["c1"].pc = "idle"

\* ResolveFile(id) (kind "file") or ResolveValue(id) (kind "value") run alone.
LeafAlone(kind, id) ==
  IF id \notin DOMAIN LeavesOf(kind)
    THEN [ref |-> ZeroLeafRef, err |-> LeafError("NotDefined", id, NoError)]
  ELSE IF ParentOf(kind, id) = ""
    THEN [ref |-> ZeroLeafRef, err |-> LeafError("NoLocation", id, NoError)]
  ELSE LET parent == RunAlone(ParentKind(kind), ParentOf(kind, id)) IN
       IF parent.err # NoError
         THEN [ref |-> ZeroLeafRef, err |-> LeafError("Parent", id, parent.err)]
         ELSE [ref |-> [Root |-> parent.ref.Root, Lineage |-> parent.ref.Lineage, ID |-> id,
                        Path |-> IF kind = "file" THEN Files[id].Path ELSE "",
                        Name |-> IF kind = "file" THEN "" ELSE Values[id].Name,
                        Type |-> IF kind = "file" THEN "" ELSE Values[id].Type],
               err |-> NoLeafError]

\* The IDs on the chain of an ID.
ChainIDs(g, id) == {Chain(g, id)[i] : i \in 1..Len(Chain(g, id))}

\* C16: concurrent resolutions do not interfere.  In every interleaving of
\* the calls of the callers, a call that has returned has the result that
\* the same call has when run alone; a call in its walk has visited IDs of
\* the chain of its own id only, so no cycle is reported because of the IDs
\* another call visited; and no step changes the resource graphs or the
\* outcome of the root lookups.
C16_NoInterference ==
  /\ [](\A c \in Callers :
          /\ calls[c].pc = "done" =>
               /\ calls[c].ref = RunAlone(calls[c].kind, calls[c].id).ref
               /\ calls[c].err = RunAlone(calls[c].kind, calls[c].id).err
          /\ calls[c].pc = "walk" =>
               calls[c].seen \subseteq ChainIDs(GraphOf(calls[c].kind), calls[c].id)
          /\ leaves[c].pc = "done" =>
               /\ leaves[c].ref = LeafAlone(leaves[c].kind, leaves[c].id).ref
               /\ leaves[c].err = LeafAlone(leaves[c].kind, leaves[c].id).err)
  /\ [][UNCHANGED graphVars]_vars

\* Two walks of the same graph are in progress, and one is about to visit
\* an ID that the other has visited and that it has not visited itself.
C16_Witness ==
  /\ calls["c1"].pc = "walk"
  /\ calls["c2"].pc = "walk"
  /\ calls["c1"].kind = calls["c2"].kind
  /\ calls["c2"].next \in calls["c1"].seen
  /\ calls["c2"].next \notin calls["c2"].seen
  /\ calls["c1"].id # calls["c2"].id

\* The collaborator of the root lookup fails for the ID of a known root.
FailingRoot(kind, id) ==
  /\ id \in RootsOf(kind)
  /\ (IF kind = "dir" THEN id ELSE DirOf(id)) \in osFail

\* The walk of id reaches the end of its chain: no ID is revisited and no
\* definition on the chain lacks a Location.
WalkReachesEnd(g, id) ==
  /\ id \in DOMAIN g
  /\ NoRevisit(Chain(g, id))
  /\ ChainEnd(Chain(g, id)) # ""

\* C17: collaborator failures are surfaced.  ResolveKnownFolder and
\* ResolveRoot return NotExist for an ID the table does not hold, and for a
\* known root whose lookup fails an error that names the root and wraps the
\* cause; and when the lookup fails for the requested id itself or for the
\* Location at the end of the walk, ResolveDirectory and ResolveKey fail
\* with that error, with no reference, and never report the ID as not
\* defined.
C17_CollaboratorSurfaced ==
  /\ \A kind \in {"dir", "key"} :
       \A id \in DirRequestIDs \cup KeyRequestIDs \cup knownFolders \cup registryRoots :
         /\ id \notin RootsOf(kind) => RootLookup(kind, id).err = ErrNotExist
         /\ FailingRoot(kind, id) =>
              /\ RootLookup(kind, id).err.kind = "Collaborator"
              /\ RootLookup(kind, id).err.id = id
              /\ RootLookup(kind, id).root = ZeroRoot
  /\ \A c \in Callers :
       LET call == calls[c]
           g == GraphOf(call.kind)
           end == ChainEnd(Chain(g, call.id))
       IN
       call.pc = "done" =>
         /\ (call.id \notin DOMAIN g /\ FailingRoot(call.kind, call.id)) =>
              /\ call.err.kind = "Collaborator"
              /\ call.err.at = call.id
              /\ call.ref = ZeroRef
         /\ (WalkReachesEnd(g, call.id) /\ FailingRoot(call.kind, end)) =>
              /\ call.err.kind = "Collaborator"
              /\ call.err.at = end
              /\ call.ref = ZeroRef

\* The lookup of the known folder failed at the end of a walk over two
\* definitions.
C17_Witness ==
  /\ calls["c1"].pc = "done"
  /\ calls["c1"].kind = "dir"
  /\ calls["c1"].steps = 2
  /\ calls["c1"].err.kind = "Collaborator"
  /\ ProgramFiles \in osFail

\* C18: every error of ResolveDirectory and ResolveKey names the requested
\* id, on every failure path, a failed lookup of a known root included; an
\* error of ResolveFile and ResolveValue names the leaf id and, when the
\* parent resolution failed, wraps the parent's error; and no lookup is
\* repeated: every iteration of the walk visits an ID not visited before.
C18_ErrorsNameRequested ==
  \A c \in Callers :
    /\ (calls[c].pc = "done" /\ calls[c].err # NoError) => calls[c].err.id = calls[c].id
    /\ calls[c].pc = "walk" => calls[c].steps = Cardinality(calls[c].seen)
    /\ (leaves[c].pc = "done" /\ leaves[c].err # NoLeafError) =>
         /\ leaves[c].err.id = leaves[c].id
         /\ leaves[c].err.kind = "Parent" => leaves[c].err.cause # NoError

\* C19: ResolveDirectory(id) and ResolveKey(id) fail with a not-defined
\* error that names the undefined ID when id, or the Location at which the
\* chain of id ends, is neither a definition nor a known root, and with a
\* no-location error that names the definition when the definition of id,
\* or of an ancestor on the chain, has an empty Location; in both cases the
\* error names the requested id too and the reference is the zero value.
C19_NotDefinedNoLocation ==
  \A c \in Callers :
    LET call == calls[c]
        g == GraphOf(call.kind)
        chain == Chain(g, call.id)
        n == Len(chain) - 1
        end == ChainEnd(chain)
    IN
    call.pc = "done" =>
      /\ (call.id \notin DOMAIN g /\ call.id \notin RootsOf(call.kind)) =>
           /\ call.err = ResolveError("NotDefined", call.id, call.id)
           /\ call.ref = ZeroRef
      /\ (call.id \in DOMAIN g /\ NoRevisit(chain) /\ end = "") =>
           /\ call.err = ResolveError("NoLocation", call.id, chain[n])
           /\ g[chain[n]].Location = ""
           /\ call.ref = ZeroRef
      /\ (call.id \in DOMAIN g /\ NoRevisit(chain) /\ end # "" /\ end \notin RootsOf(call.kind)) =>
           /\ call.err = ResolveError("NotDefined", call.id, end)
           /\ end \notin DOMAIN g
           /\ call.ref = ZeroRef

\* A walk met an ancestor without Location after it had gathered the
\* definition of the requested id.
C19_Witness ==
  /\ calls["c1"].pc = "done"
  /\ calls["c1"].kind = "dir"
  /\ calls["c1"].err.kind = "NoLocation"
  /\ calls["c1"].err.at # calls["c1"].id
  /\ calls["c1"].ref = ZeroRef

\* The places after the first of a chain that hold the ID of a known root.
RootPlaces(kind, chain) == {j \in 2..Len(chain) : chain[j] \in RootsOf(kind)}

\* The least element of a non-empty set of numbers.
Least(S) == CHOOSE j \in S : \A k \in S : j <= k

\* C20: the ancestor walk stops at the first known root.  In ResolveDirectory
\* and ResolveKey, when the chain of the requested id meets the ID of a
\* known root (whose lookup succeeds), the walk ends successfully with that
\* root as Root and with the definitions before it as Lineage; no definition
\* is consulted or appended for that Location or beyond, whether or not the
\* graph defines a resource under the ID of the root.
C20_StopsAtFirstRoot ==
  \A c \in Callers :
    LET call == calls[c]
        g == GraphOf(call.kind)
        chain == Chain(g, call.id)
        places == RootPlaces(call.kind, chain)
    IN
    (/\ call.pc = "done"
     /\ call.id \in DOMAIN g
     /\ places # {}
     /\ RootLookup(call.kind, chain[Least(places)]).err = NoError) =>
      LET j == Least(places) IN
      /\ call.err = NoError
      /\ call.ref.Root.ID = chain[j]
      /\ Len(call.ref.Lineage) = j - 1
      /\ \A i \in 1..(j - 1) : call.ref.Lineage[i] = g[chain[j - i]]

(***************************************************************************)
(* The event registry and the records: further claims.                     *)
(***************************************************************************)

\* The last call gave an envelope to a decoder compiled for a type whose
\* tag is not the tag of the envelope.
MisdirectedEnvelope ==
  /\ last.op = "UnmarshalRecord"
  /\ last.in.wf
  /\ last.in.type \in DOMAIN unmarshalers
  /\ last.in.type # TypeOf(unmarshalers[last.in.type].goType)

\* C21 as stated: whenever the tag of the envelope differs from the tag of
\* the type the decoder was compiled for, the decoder fails with an error
\* that names both tags.
C21_AsStated ==
  MisdirectedEnvelope =>
    /\ last.err # "nil"
    /\ last.names = {last.in.type, TypeOf(unmarshalers[last.in.type].goType)}

\* C21 as amended: whenever the tag of the envelope differs from the tag of
\* the type the decoder was compiled for, the decoder fails and returns the
\* zero record of its type, never a record with the data of the envelope;
\* the error names both tags when the JSON of the envelope decodes into the
\* type, and is the decoding error, which names the tag of the decoder's
\* type, when it does not.  So Registry.UnmarshalRecord of an envelope of
\* tag B fails when a decoder compiled for type A is registered under B.
C21_DecoderVerifiesTag ==
  MisdirectedEnvelope =>
    LET goType == unmarshalers[last.in.type].goType IN
    /\ last.err # "nil"
    /\ last.rec = ZeroRecord(goType)
    /\ last.invoked = <<unmarshalers[last.in.type]>>
    /\ IF DecodeFails(goType, last.in)
         THEN last.err = "Decode" /\ last.names = {TypeOf(goType)}
         ELSE last.err = "TypeMismatch" /\ last.names = {last.in.type, TypeOf(goType)}

\* An envelope of the tag of its own, whose JSON decodes into a FlowStopped,
\* was refused by the decoder of FlowStopped registered under that tag.
C21_Witness ==
  /\ MisdirectedEnvelope
  /\ last.in.type = CustomType
  /\ last.err = "TypeMismatch"
  /\ last.names = {CustomType, FlowStoppedType}

\* A registry state in which every tag of the list has an ID and a decoder,
\* and nothing else has one.
Whole(reg) ==
  /\ {reg.types[i] : i \in DOMAIN reg.types} = DOMAIN reg.ids
  /\ DOMAIN reg.ids = DOMAIN reg.unmarshalers

\* C22: with one goroutine in Add(r1..rn) and others in EventID, Types and
\* UnmarshalRecord, whatever a read observes is the registry as it was
\* before the Add or as it is after the whole of it, never a part of it: no
\* tag is seen with an ID and without a decoder, or in the list without an
\* ID; Add changes the registry only while no reader holds the lock; and a
\* reader is never kept from going on by another reader.
C22_WritesDoNotInterleave ==
  /\ \A r \in Readers :
       readers[r].pc = "read" =>
         /\ readers[r].seen \in {window.before, window.after}
         /\ Whole(readers[r].seen)
  /\ mutex.writer = "held" => mutex.readers = {}
  /\ mutex.writer # "held" => RegistryState = window.after
  /\ \A r \in Readers :
       /\ (readers[r].pc = "idle" /\ mutex.writer = "free") => ENABLED RLock(r)
       /\ readers[r].pc = "locked" => ENABLED ReadTypes(r)
       /\ readers[r].pc = "read" => ENABLED RUnlock(r)

\* Two readers hold the lock at once, after an Add of two new tags, one of
\* them having seen the result of it, while the next Add waits for them.
C22_Witness ==
  /\ mutex.readers = Readers
  /\ mutex.writer = "pending"
  /\ readers["r1"].pc = "read"
  /\ readers["r1"].seen = window.after
  /\ readers["r2"].pc = "locked"
  /\ Len(window.after.types) = Len(window.before.types) + 2

\* C23: UnmarshalRecord never changes the registry.  A call of
\* UnmarshalRecord leaves the list of types, the IDs, the decoders and the
\* next ID as they were, whether it succeeds, meets an unknown tag, is given
\* bytes that are not JSON, or the decoder fails.
C23_UnmarshalKeepsRegistry ==
  [][last'.op = "UnmarshalRecord" =>
       /\ UNCHANGED <<types, ids, unmarshalers, nextID, start>>
       /\ last'.err \in {"nil", "UnrecognizedType", "HeaderParse", "Decode", "TypeMismatch"}]_vars

\* The decoder of a registry of three types has failed.
C23_Witness ==
  /\ last.op = "UnmarshalRecord"
  /\ last.err = "Decode"
  /\ Len(types) = 3
  /\ DOMAIN unmarshalers = ModelTags
  /\ nextID = start + 3

\* The elements of a list.
ElementsOf(s) == {s[i] : i \in DOMAIN s}

\* A list that holds no element twice.
NoDuplicate(s) == \A i, j \in DOMAIN s : s[i] = s[j] => i = j

\* C24: Types() returns every registered tag exactly once, in the order of
\* first registration: the list starts empty, Add appends the tags it sees
\* for the first time in the order it meets them and neither moves nor
\* repeats a tag registered before, and Types() returns that list.
\* EventID(t) reports ok = true exactly for the tags in Types().
C24_TypesInOrder ==
  /\ [](/\ last.op = "Types" =>
             /\ last.types = types
             /\ NoDuplicate(last.types)
             /\ ElementsOf(last.types) = DOMAIN unmarshalers
        /\ last.op = "EventID" =>
             /\ last.ok <=> last.in \in ElementsOf(types)
             /\ last.ok => types[last.id - start + 1] = last.in)
  /\ [][last'.op = "Add" =>
          types' = types \o FirstSights(last'.in, ElementsOf(types))]_vars

\* Types() after a second registration of the first tag of three.
C24_Witness ==
  /\ last.op = "Types"
  /\ last.types = <<FlowStoppedType, CustomType, FlowStartedType>>
  /\ unmarshalers[FlowStoppedType].rev = 2

\* C29: the bookkeeping of the registry.  Between operations the tags of
\* the list of types, the keys of the ID map and the keys of the decoder map
\* are the same set; the ID map is injective and its IDs are exactly
\* start .. start + n - 1 for n registered tags; and next is start + n.
C29_Bookkeeping ==
  LET n == Len(types) IN
  /\ ElementsOf(types) = DOMAIN ids
  /\ DOMAIN ids = DOMAIN unmarshalers
  /\ \A t, u \in DOMAIN ids : ids[t] = ids[u] => t = u
  /\ {ids[t] : t \in DOMAIN ids} = start..(start + n - 1)
  /\ Cardinality(DOMAIN ids) = n
  /\ nextID = start + n

\* An Add of two registrations of one tag to a registry of three tags.
C29_Witness ==
  /\ last.op = "Add"
  /\ Len(last.in) = 2
  /\ last.in[1].Type = last.in[2].Type
  /\ last.in[1] # last.in[2]
  /\ Len(types) = 3
  /\ nextID = start + 3
  /\ start = 1000

\* C25: a record is immutable.  Time, Type, Level, Message, Details, Attrs,
\* ToLog and MarshalJSON leave the timestamp, the program counter and the
\* payload of the record as they were; and an UnmarshalJSON that fails, on
\* bytes that are not JSON, on data that does not decode or on the tag of
\* another type, leaves the timestamp and the payload of its target as they
\* were.
C25_RecordImmutable ==
  [][/\ recordOut'.op \in Accessors => record' = record
     /\ (recordOut'.op = "UnmarshalJSON" /\ recordOut'.err # "nil") =>
          /\ record'.time = record.time
          /\ record'.Event = record.Event
          /\ record'.pc = record.pc]_vars

\* A record built by NewRecord that an envelope of another type and of
\* another time was decoded into, in vain.
C25_Witness ==
  /\ recordOut.op = "UnmarshalJSON"
  /\ recordOut.err = "TypeMismatch"
  /\ recordOut.b.time # record.time.wall
  /\ record.time.mono # 0
  /\ record.pc = 1
  /\ record.Event.Err = "boom"

\* C27: NewRecord(at, pc, event) returns a record whose Time() is the
\* current time at construction, not the time given, whose program counter
\* is pc and whose payload is the event as given; its Type, Level, Message,
\* Details and Attrs are those of the payload.
C27_NewRecord ==
  recordOut.op = "NewRecord" =>
    /\ Time(record) = recordOut.now
    /\ record.pc = recordOut.pc
    /\ record.Event = recordOut.event
    /\ Type(record) = TypeOf(recordOut.event.goType)
    /\ Level(record) = EventLevel(recordOut.event)
    /\ Message(record) = EventMessage(recordOut.event)
    /\ Details(record) = EventDetails(recordOut.event)
    /\ Attrs(record) = EventAttrs(recordOut.event)
    /\ ToLog(record).Time = recordOut.now
    /\ ToLog(record).PC = recordOut.pc

\* A record of a flow stopped by an error, built with a time given that is
\* not the time of the clock.
C27_Witness ==
  /\ recordOut.op = "NewRecord"
  /\ recordOut.at.wall # recordOut.now.wall
  /\ recordOut.now = clock
  /\ record.time = clock
  /\ recordOut.pc = 1
  /\ record.Event.Err = "boom"
  /\ Level(record) = "ERROR"

(***************************************************************************)
(* The paths of registry keys.                                             *)
(***************************************************************************)

\* A key with exactly one of Name and Path.
ExactlyOne(key) == (key.Name # "") # (key.Path # "")

\* C26: RegistryKeyRef.Path() returns a path only when every key of the
\* lineage has exactly one of Name and Path, and fails for a key that has
\* neither or both.
C26_ExactlyOne ==
  keyOut.op = "RegistryKeyRef.Path" =>
    /\ keyOut.err = "nil" => \A i \in DOMAIN keyIn.Lineage : ExactlyOne(keyIn.Lineage[i])
    /\ (\E i \in DOMAIN keyIn.Lineage : ~ExactlyOne(keyIn.Lineage[i])) => keyOut.err # "nil"

(***************************************************************************)
(* The handles of OpenDir.                                                 *)
(***************************************************************************)

\* C30: OpenDir never leaks handles.  On every path out of OpenDir (success,
\* failure to open the root, failure to localize a path, failure to open a
\* descendant) every handle it opened is closed, but the one returned in
\* the Dir on success; never more than two handles are open at once; and
\* each parent is closed before the next level is opened.
C30_NoLeak ==
  /\ Cardinality(handles) <= 2
  /\ opening.pc = "returned" =>
       handles = IF opening.err = "nil" THEN {opening.dir.root} ELSE {}
  /\ opening.pc \in {"loop", "descend"} => handles = {opening.root}
  /\ opening.pc = "closed" => handles = {}

(***************************************************************************)
(* ResolveKey and ResolveDirectory, one under the names of the other.      *)
(***************************************************************************)

RECURSIVE WalkSteps(_, _, _)
\* The number of iterations of the ancestor walk run to its end.
WalkSteps(kind, seen, next) ==
  LET g == GraphOf(kind) IN
  IF next \notin seen /\ next \in DOMAIN g /\ g[next].Location # ""
    THEN 1 + WalkSteps(kind, seen \cup {next}, g[next].Location)
    ELSE 1

\* The number of iterations of the walk of a resolution run alone.
StepsAlone(kind, id) ==
  LET g == GraphOf(kind) IN
  IF id \notin DOMAIN g \/ g[id].Location = "" THEN 0
  ELSE WalkSteps(kind, {}, g[id].Location)

\* A lineage of directories and an error of ResolveDirectory under the
\* names of the registry.
RenameLineage(lineage) ==
  [i \in DOMAIN lineage |->
     [Location |-> KeyOf(lineage[i].Location), Name |-> "", Path |-> lineage[i].Path]]

RenameError(err) == [kind |-> err.kind, id |-> KeyOf(err.id), at |-> KeyOf(err.at)]

\* C28: ResolveKey behaves exactly like ResolveDirectory under the renaming
\* of directories to keys and of known folders to registry roots, the
\* collaborators giving the same outcomes.  On corresponding graphs and IDs
\* both succeed, with corresponding Roots and with lineages of the same
\* order and length, or both fail with the same kind of failure at the same
\* ID; and both take the same number of steps of the walk.
C28_KeyLikeDirectory ==
  \A c \in Callers :
    calls[c].pc = "done" =>
      /\ calls[c].kind = "key" =>
           LET dir == RunAlone("dir", DirOf(calls[c].id)) IN
           /\ calls[c].err = RenameError(dir.err)
           /\ calls[c].ref.Root.ID = KeyOf(dir.ref.Root.ID)
           /\ calls[c].ref.Lineage = RenameLineage(dir.ref.Lineage)
           /\ calls[c].steps = StepsAlone("dir", DirOf(calls[c].id))
      /\ calls[c].kind = "dir" =>
           LET key == RunAlone("key", KeyOf(calls[c].id)) IN
           /\ RenameError(calls[c].err) = key.err
           /\ KeyOf(calls[c].ref.Root.ID) = key.ref.Root.ID
           /\ RenameLineage(calls[c].ref.Lineage) = key.ref.Lineage
           /\ calls[c].steps = StepsAlone("key", KeyOf(calls[c].id))

\* ResolveKey has returned a key two levels below the registry root.
C28_Witness ==
  /\ calls["c1"].pc = "done"
  /\ calls["c1"].kind = "key"
  /\ calls["c1"].err = NoError
  /\ calls["c1"].ref.Root.ID = Software
  /\ Len(calls["c1"].ref.Lineage) = 2
  /\ calls["c1"].steps = 2

====
